---- MODULE Spec2Model ----
(***************************************************************************)
(* A model of the MeowScript compiler front end: the scoped symbol table   *)
(* and the semantic analyzer (src/src/semantic.py), the recursive-descent  *)
(* parser with panic-mode recovery (src/src/parser.py) and the driver that *)
(* runs the phases in order (src/src/main.py).                             *)
(*                                                                         *)
(* Python's 0-based list index i is the TLA+ sequence index i + 1: the     *)
(* frame scopes[scope_level] of the code is scopes[scope_level + 1] here.  *)
(***************************************************************************)
EXTENDS Integers, Sequences, FiniteSets, TLC

(***************************************************************************)
(* Bounds of the model.                                                    *)
(***************************************************************************)
\* SpecTable: the deepest frame stack enter_scope may build.
MaxScopes == 3
\* SpecSem: statements visited in one walk, and how deep blocks nest.
MaxStmts == 3
MaxNest == 2
\* SpecSem: the longest diagnostics list a walk may accumulate.
MaxErrors == 2
\* Spec: the longest token list of a source, without its EOF token.
MaxTokens == 6
\* SpecGen: the statements of a program (blocks hold one more level).
MaxProgram == 2
\* SpecRegen: the runs of generate on one instance.
MaxRuns == 2
\* SpecParse: the pieces a program's token list is made of, and the binary
\* operators of an expression's token list.
MaxPieces == 4
MaxOperators == 2
\* SpecLex: the pieces a source text is made of.
MaxSource == 5

(***************************************************************************)
(* Inputs: the identifiers and literal kinds the programs are built from.  *)
(***************************************************************************)
Names == {"f", "x"}

\* Python's None (never an identifier: identifiers hold no angle bracket).
None == "<None>"

\* "r = value" followed by then(r), the value computed once.
Bind(value, then(_)) == CHOOSE v \in {then(r) : r \in {value}} : TRUE

\* class DataType
TREATS == "TREATS"
WHISKERS == "WHISKERS"
YARN == "YARN"
VOID == "VOID"
UNKNOWN == "UNKNOWN"
DataType == {TREATS, WHISKERS, YARN, VOID, UNKNOWN}

\* class Symbol (line and column only decorate messages and are left out; the
\* parameters of a variable, None in the code, are the empty list here: the code
\* reads them only through "if symbol.parameters", which takes both alike).
Symbol(name, data_type, scope_level, is_function, parameters) ==
    [name |-> name, data_type |-> data_type, scope_level |-> scope_level,
     is_function |-> is_function, parameters |-> parameters]

\* A SemanticError, by the fixed part of its message and the name it quotes.
SemanticError(kind, name) == [kind |-> kind, name |-> name]

VARIABLES
    \* class SymbolTable
    scopes,            \* stack of frames, each a function name -> Symbol
    current_scope,     \* index (0-based) of the current frame
    \* class SemanticAnalyzer
    errors,            \* the accumulated diagnostics, in order
    current_function,  \* name of the function being walked, or None
    in_function,       \* whether the walk is inside a function body
    \* the walk of one AST by SemanticAnalyzer.analyze
    frames,            \* the activations of visit_function_def / visit_if_statement /
                       \* visit_while_loop that are walking a block, innermost last
                       \* (with the FuncDef's name and whether a Return was met in it)
    node,              \* the statement visit_statement is called with, or NoNode
    nstmts,            \* statements visited so far
    outcome,           \* "walking", then what analyze did: "ok" or "SemanticError"
    \* a direct caller of the SymbolTable
    ret,               \* the last SymbolTable call and what it returned
    \* class MeowScriptCompiler
    source_code,       \* the source, by what the lexer makes of it
    tokens,            \* self.tokens
    ast,               \* self.ast
    tac,               \* self.tac
    pc,                \* the phase compile calls next, "done" once it has returned
    returned,          \* what compile returned
    ran,               \* the phases compile has called, in order
    recovered,         \* "Attempting to recover..." lines the parser printed
    recoveries         \* where each recover_from_error call began and ended

semvars == <<scopes, current_scope, errors, current_function, in_function,
             frames, node, nstmts, outcome>>
drivervars ==
    <<source_code, tokens, ast, tac, pc, returned, ran, recovered, recoveries>>
vars == <<scopes, current_scope, errors, current_function, in_function,
          frames, node, nstmts, outcome, ret,
          source_code, tokens, ast, tac, pc, returned, ran, recovered, recoveries>>

(***************************************************************************)
(* class SymbolTable, as operators on a table t = [scopes, current_scope]. *)
(***************************************************************************)
\* Python's None where a Symbol is expected (the result of a failed lookup).
NoSymbol == [kind |-> "None"]

EmptyFrame == [n \in {} |-> NoSymbol]

Table(s, c) == [scopes |-> s, current_scope |-> c]

\* SymbolTable.__init__
NewTable == Table(<<EmptyFrame>>, 0)

\* An enter_scope that pushes the frame and leaves current_scope where it is.
enter_scope_uncounted(t) == Table(Append(t.scopes, EmptyFrame), t.current_scope)

enter_scope(t) == Table(Append(t.scopes, EmptyFrame), t.current_scope + 1)

\* An exit_scope that pops whatever the depth.
exit_scope_unguarded(t) ==
    Table(SubSeq(t.scopes, 1, Len(t.scopes) - 1), t.current_scope - 1)

exit_scope(t) ==
    IF t.current_scope > 0
    THEN Table(SubSeq(t.scopes, 1, Len(t.scopes) - 1), t.current_scope - 1)
    ELSE t

\* self.scopes[self.current_scope][symbol.name] = symbol
Insert(frame, symbol) ==
    [n \in DOMAIN frame \cup {symbol.name} |->
        IF n = symbol.name THEN symbol ELSE frame[n]]

\* A declare that refuses a name any frame of the stack holds (no shadowing).
declare_unshadowed(t, symbol) ==
    IF \E i \in 1..Len(t.scopes) : symbol.name \in DOMAIN t.scopes[i]
    THEN [raised |-> TRUE, table |-> t]
    ELSE [raised |-> FALSE,
          table |-> Table([t.scopes EXCEPT ![t.current_scope + 1] = Insert(@, symbol)],
                          t.current_scope)]

\* declare: raised tells whether SemanticError was raised; table is the table after.
declare(t, symbol) ==
    IF symbol.name \in DOMAIN t.scopes[t.current_scope + 1]
    THEN [raised |-> TRUE, table |-> t]
    ELSE [raised |-> FALSE,
          table |-> Table([t.scopes EXCEPT ![t.current_scope + 1] = Insert(@, symbol)],
                          t.current_scope)]

\* The loop of lookup: range(self.current_scope, -1, -1), from scope_level down.
\* The level of the first frame holding name, or -1 when the loop runs out.
RECURSIVE lookup_from(_, _, _)
lookup_from(t, name, scope_level) ==
    IF scope_level < 0 THEN -1
    ELSE IF name \in DOMAIN t.scopes[scope_level + 1] THEN scope_level
    ELSE lookup_from(t, name, scope_level - 1)

\* A scan from the outermost frame inwards.
lookup_outermost(t, name) ==
    LET S == {l \in 0..t.current_scope : name \in DOMAIN t.scopes[l + 1]}
    IN  IF S = {} THEN -1 ELSE CHOOSE l \in S : \A m \in S : l <= m

lookup_level(t, name) == lookup_from(t, name, t.current_scope)

lookup(t, name) ==
    LET l == lookup_level(t, name)
    IN  IF l = -1 THEN NoSymbol ELSE t.scopes[l + 1][name]

(***************************************************************************)
(* The AST (src/src/parser.py): expression and statement nodes, without    *)
(* their coordinates.                                                      *)
(***************************************************************************)
\* A literal's value is kept as the text str(value) gives (the value of its token).
IntegerNode(value) == [kind |-> "Integer", value |-> value]
FloatNode(value) == [kind |-> "Float", value |-> value]
StringNode(value) == [kind |-> "String", value |-> value]
IdentifierNode(name) == [kind |-> "Identifier", name |-> name]
UnaryOpNode(operator, operand) ==
    [kind |-> "UnaryOp", operator |-> operator, operand |-> operand]
BinaryOpNode(operator, left, right) ==
    [kind |-> "BinaryOp", operator |-> operator, left |-> left, right |-> right]
FunctionCallNode(name, arguments) ==
    [kind |-> "FunctionCall", name |-> name, arguments |-> arguments]

VarDeclarationNode(identifier, value) ==
    [kind |-> "VarDeclaration", identifier |-> identifier, value |-> value]
AssignmentNode(identifier, value) ==
    [kind |-> "Assignment", identifier |-> identifier, value |-> value]
FunctionDefNode(name, parameters, body) ==
    [kind |-> "FunctionDef", name |-> name, parameters |-> parameters, body |-> body]
\* else_block is Optional: None is <<>> here and a list l is <<l>>.
IfStatementNode(condition, then_block, else_block) ==
    [kind |-> "IfStatement", condition |-> condition, then_block |-> then_block,
     else_block |-> else_block]
WhileLoopNode(condition, body) ==
    [kind |-> "WhileLoop", condition |-> condition, body |-> body]
ReturnStatementNode(value) == [kind |-> "ReturnStatement", value |-> value]
PrintStatementNode(value) == [kind |-> "PrintStatement", value |-> value]
FunctionCallStatementNode(call) == [kind |-> "FunctionCallStatement", call |-> call]
ProgramNode(statements) == [kind |-> "Program", statements |-> statements]

\* Python's None where a node is expected.
NoNode == [kind |-> "none"]

\* What "if node.else_block" sees: "None" (no Hiss), "empty" (Hiss { }, a list
\* that is false like None) or "stmts" (a list with a statement in it).
ElseKind(else_block) ==
    IF else_block = <<>> THEN "None"
    ELSE IF else_block[1] = <<>> THEN "empty"
    ELSE "stmts"

\* The expressions the walks draw from: the literals and identifiers, and
\* operators and calls over them.
LeafNodes ==
    {IntegerNode("1"), FloatNode("1.5"), StringNode("s")} \cup {IdentifierNode(n) : n \in Names}
ArgLists == {<<>>, <<IntegerNode("1")>>, <<IdentifierNode("x")>>}
CallNodes == {FunctionCallNode(n, args) : n \in Names, args \in ArgLists}
Expressions ==
    LeafNodes
    \cup {UnaryOpNode("-", StringNode("s"))}
    \cup {BinaryOpNode("/", l, IntegerNode("1")) : l \in {IntegerNode("1"), StringNode("s")}}
    \cup CallNodes
\* The conditions of Purr and Chase and the values of Meow (only their
\* diagnostics are used).
Conditions == {IntegerNode("1"), IdentifierNode("x")}
ParameterLists == {<<>>, <<"x">>, <<"f">>, <<"x", "x">>}

(***************************************************************************)
(* class SemanticAnalyzer: the expression visitors.  Each returns the type *)
(* of the expression and the diagnostics add_error appended, in order.     *)
(***************************************************************************)
Typed(type, errs) == [type |-> type, errs |-> errs]

Numeric == {TREATS, WHISKERS}

\* A compatibility that is equality only (no numeric widening).
are_types_equal(type1, type2) == type1 = type2

are_types_compatible(type1, type2) ==
    IF type1 = type2 THEN TRUE
    ELSE IF type1 \in Numeric /\ type2 \in Numeric THEN TRUE
    ELSE FALSE

visit_identifier(n, t) ==
    LET symbol == lookup(t, n.name)
    IN  IF symbol = NoSymbol
        THEN Typed(UNKNOWN, <<SemanticError("Undeclared variable", n.name)>>)
        ELSE IF symbol.is_function
        THEN Typed(UNKNOWN, <<SemanticError("Cannot use function as a variable", n.name)>>)
        ELSE Typed(symbol.data_type, <<>>)

\* A result in which '/' widens like the other arithmetic operators.
binary_op_type_widening(operator, left_type, right_type) ==
    IF operator \in {"+", "-", "*", "/", "%"}
    THEN IF operator = "+" /\ (left_type = YARN \/ right_type = YARN)
         THEN Typed(YARN, <<>>)
         ELSE IF left_type \in Numeric /\ right_type \in Numeric
         THEN IF left_type = WHISKERS \/ right_type = WHISKERS
              THEN Typed(WHISKERS, <<>>)
              ELSE Typed(TREATS, <<>>)
         ELSE IF left_type # UNKNOWN /\ right_type # UNKNOWN
         THEN Typed(UNKNOWN, <<SemanticError("Type error: cannot apply operator", operator)>>)
         ELSE Typed(UNKNOWN, <<>>)
    ELSE Typed(TREATS, <<>>)

\* The result of visit_binary_op once both operands are visited.
binary_op_type(operator, left_type, right_type) ==
    IF operator \in {"+", "-", "*", "/", "%"}
    THEN IF operator = "+" /\ (left_type = YARN \/ right_type = YARN)
         THEN Typed(YARN, <<>>)
         ELSE IF left_type \in Numeric /\ right_type \in Numeric
         THEN IF operator = "/" THEN Typed(WHISKERS, <<>>)
              ELSE IF left_type = WHISKERS \/ right_type = WHISKERS
              THEN Typed(WHISKERS, <<>>)
              ELSE Typed(TREATS, <<>>)
         ELSE IF left_type # UNKNOWN /\ right_type # UNKNOWN
         THEN Typed(UNKNOWN, <<SemanticError("Type error: cannot apply operator", operator)>>)
         ELSE Typed(UNKNOWN, <<>>)
    ELSE IF operator \in {"==", "!=", "<", ">", "<=", ">="}
    THEN IF left_type = right_type THEN Typed(TREATS, <<>>)
         ELSE IF left_type \in Numeric /\ right_type \in Numeric THEN Typed(TREATS, <<>>)
         ELSE IF left_type # UNKNOWN /\ right_type # UNKNOWN
         THEN Typed(TREATS, <<SemanticError("Type error: cannot compare", operator)>>)
         ELSE Typed(TREATS, <<>>)
    ELSE IF operator \in {"&&", "||"} THEN Typed(TREATS, <<>>)
    ELSE Typed(UNKNOWN, <<>>)

\* The result of visit_unary_op once the operand is visited.
unary_op_type(operator, operand_type) ==
    IF operator = "!" THEN Typed(TREATS, <<>>)
    ELSE IF operator = "-"
    THEN IF operand_type \in Numeric THEN Typed(operand_type, <<>>)
         ELSE IF operand_type # UNKNOWN
         THEN Typed(UNKNOWN, <<SemanticError("Type error: cannot apply unary", operator)>>)
         ELSE Typed(UNKNOWN, <<>>)
    ELSE Typed(UNKNOWN, <<>>)

RECURSIVE visit_expression(_, _)
RECURSIVE visit_arguments(_, _)

visit_binary_op(n, t) ==
    LET left == visit_expression(n.left, t)
        right == visit_expression(n.right, t)
        r == binary_op_type(n.operator, left.type, right.type)
    IN  Typed(r.type, left.errs \o right.errs \o r.errs)

visit_unary_op(n, t) ==
    LET operand == visit_expression(n.operand, t)
        r == unary_op_type(n.operator, operand.type)
    IN  Typed(r.type, operand.errs \o r.errs)

\* for arg in node.arguments: self.visit_expression(arg)
visit_arguments(arguments, t) ==
    IF arguments = <<>> THEN <<>>
    ELSE visit_expression(Head(arguments), t).errs \o visit_arguments(Tail(arguments), t)

\* A visit_function_call that never compares the argument count.
visit_function_call_uncounted(n, t) ==
    LET symbol == lookup(t, n.name)
    IN  IF symbol = NoSymbol
        THEN Typed(UNKNOWN, <<SemanticError("Undeclared function", n.name)>>)
        ELSE IF ~symbol.is_function
        THEN Typed(UNKNOWN, <<SemanticError("is not a function", n.name)>>)
        ELSE Typed(symbol.data_type, visit_arguments(n.arguments, t))

visit_function_call(n, t) ==
    LET symbol == lookup(t, n.name)
    IN  IF symbol = NoSymbol
        THEN Typed(UNKNOWN, <<SemanticError("Undeclared function", n.name)>>)
        ELSE IF ~symbol.is_function
        THEN Typed(UNKNOWN, <<SemanticError("is not a function", n.name)>>)
        ELSE LET expected_params == Len(symbol.parameters)
                 actual_args == Len(n.arguments)
                 count == IF expected_params # actual_args
                          THEN <<SemanticError("expects arguments", n.name)>>
                          ELSE <<>>
             IN  Typed(symbol.data_type, count \o visit_arguments(n.arguments, t))

visit_expression(n, t) ==
    IF n.kind = "BinaryOp" THEN visit_binary_op(n, t)
    ELSE IF n.kind = "UnaryOp" THEN visit_unary_op(n, t)
    ELSE IF n.kind = "Integer" THEN Typed(TREATS, <<>>)
    ELSE IF n.kind = "Float" THEN Typed(WHISKERS, <<>>)
    ELSE IF n.kind = "String" THEN Typed(YARN, <<>>)
    ELSE IF n.kind = "Identifier" THEN visit_identifier(n, t)
    ELSE IF n.kind = "FunctionCall" THEN visit_function_call(n, t)
    ELSE Typed(UNKNOWN, <<>>)

(***************************************************************************)
(* class SemanticAnalyzer: the statement visitors, as operators on the     *)
(* analyzer self = [scopes, current_scope, errors, current_function,       *)
(* in_function].                                                           *)
(***************************************************************************)
TableOf(self) == Table(self.scopes, self.current_scope)

WithTable(self, t) ==
    [self EXCEPT !.scopes = t.scopes, !.current_scope = t.current_scope]

\* add_error, once for each diagnostic of errs
add_error(self, errs) == [self EXCEPT !.errors = @ \o errs]

visit_var_declaration(self, n) ==
    LET value == visit_expression(n.value, TableOf(self))
        symbol == Symbol(n.identifier, value.type, self.current_scope, FALSE, <<>>)
        d == declare(TableOf(self), symbol)
        s1 == add_error(self, value.errs)
    IN  IF d.raised
        THEN add_error(s1, <<SemanticError("already declared", n.identifier)>>)
        ELSE WithTable(s1, d.table)

visit_assignment(self, n) ==
    LET symbol == lookup(TableOf(self), n.identifier)
    IN  IF symbol = NoSymbol
        THEN add_error(self, <<SemanticError("Undeclared variable", n.identifier)>>)
        ELSE IF symbol.is_function
        THEN add_error(self, <<SemanticError("Cannot assign to function", n.identifier)>>)
        ELSE LET value == visit_expression(n.value, TableOf(self))
                 s1 == add_error(self, value.errs)
             IN  IF /\ symbol.data_type # UNKNOWN
                    /\ value.type # UNKNOWN
                    /\ ~are_types_compatible(symbol.data_type, value.type)
                 THEN add_error(s1, <<SemanticError("Type mismatch", n.identifier)>>)
                 ELSE s1

\* for param in node.parameters: declare it, UNKNOWN, in the function's frame
RECURSIVE declare_parameters(_, _)
declare_parameters(self, parameters) ==
    IF parameters = <<>> THEN self
    ELSE LET param_symbol == Symbol(Head(parameters), UNKNOWN, self.current_scope,
                                    FALSE, <<>>)
             d == declare(TableOf(self), param_symbol)
             s1 == IF d.raised
                   THEN add_error(self, <<SemanticError("already declared",
                                                        Head(parameters))>>)
                   ELSE WithTable(self, d.table)
         IN  declare_parameters(s1, Tail(parameters))

\* visit_function_def up to the walk of the body.  entered is FALSE when the
\* handler returned at the redeclaration (the body is then never walked).
visit_function_def(self, n) ==
    LET symbol == Symbol(n.name, UNKNOWN, self.current_scope, TRUE, n.parameters)
        d == declare(TableOf(self), symbol)
    IN  IF d.raised
        THEN [self |-> add_error(self, <<SemanticError("already declared", n.name)>>),
              entered |-> FALSE]
        ELSE LET s1 == WithTable(self, enter_scope(d.table))
                 s2 == [s1 EXCEPT !.current_function = n.name, !.in_function = TRUE]
             IN  [self |-> declare_parameters(s2, n.parameters),
                  entered |-> TRUE]

\* A visit_function_def end that resets in_function instead of restoring it.
visit_function_def_exit_reset(self, activation) ==
    [WithTable(self, exit_scope(TableOf(self)))
        EXCEPT !.current_function = activation.old_function,
               !.in_function = FALSE]

\* visit_function_def after the walk of the body; activation holds the locals
\* old_function and old_in_function.
visit_function_def_exit(self, activation) ==
    [WithTable(self, exit_scope(TableOf(self)))
        EXCEPT !.current_function = activation.old_function,
               !.in_function = activation.old_in_function]

\* visit_if_statement up to the walk of the then-block
visit_if_statement(self, n) ==
    LET condition == visit_expression(n.condition, TableOf(self))
        s1 == add_error(self, condition.errs)
    IN  WithTable(s1, enter_scope(TableOf(s1)))

\* visit_if_statement between the blocks: "if node.else_block" holds for a
\* list with a statement in it, neither for None nor for the empty list.
visit_if_statement_else(self, activation) ==
    LET s1 == WithTable(self, exit_scope(TableOf(self)))
    IN  IF activation.else_block = "stmts"
        THEN WithTable(s1, enter_scope(TableOf(s1)))
        ELSE s1

\* visit_if_statement after the walk of the else-block
visit_if_statement_exit(self) == WithTable(self, exit_scope(TableOf(self)))

\* visit_while_loop up to the walk of the body
visit_while_loop(self, n) ==
    LET condition == visit_expression(n.condition, TableOf(self))
        s1 == add_error(self, condition.errs)
    IN  WithTable(s1, enter_scope(TableOf(s1)))

\* A visit_while_loop end that leaves the body's frame on the stack.
visit_while_loop_exit_missing(self) == self

\* visit_while_loop after the walk of the body
visit_while_loop_exit(self) == WithTable(self, exit_scope(TableOf(self)))

visit_return_statement(self, n) ==
    IF ~self.in_function
    THEN add_error(self, <<SemanticError("Return statement outside of function", None)>>)
    ELSE LET return_type == visit_expression(n.value, TableOf(self))
             s1 == add_error(self, return_type.errs)
             l == lookup_level(TableOf(self), self.current_function)
             symbol == lookup(TableOf(self), self.current_function)
         IN  IF self.current_function = None THEN s1
             ELSE IF symbol # NoSymbol /\ symbol.data_type = UNKNOWN
             THEN \* symbol.data_type = return_type, on the Symbol the frame holds
                  [s1 EXCEPT !.scopes[l + 1][self.current_function].data_type =
                                 return_type.type]
             ELSE IF symbol # NoSymbol /\ symbol.data_type # return_type.type
             THEN IF ~are_types_compatible(symbol.data_type, return_type.type)
                  THEN add_error(s1, <<SemanticError("Inconsistent return type",
                                                     self.current_function)>>)
                  ELSE s1
             ELSE s1

visit_print_statement(self, n) ==
    add_error(self, visit_expression(n.value, TableOf(self)).errs)

visit_function_call_statement(self, n) ==
    add_error(self, visit_function_call(n.call, TableOf(self)).errs)

(***************************************************************************)
(* class SemanticAnalyzer: the walk of a whole AST, each block handler     *)
(* composed of its parts around the walk of its blocks.                    *)
(***************************************************************************)
\* SemanticAnalyzer.__init__
NewAnalyzer ==
    [scopes |-> NewTable.scopes, current_scope |-> NewTable.current_scope,
     errors |-> <<>>, current_function |-> None, in_function |-> FALSE]

RECURSIVE visit_statement(_, _)
RECURSIVE visit_statements(_, _)

\* for stmt in <block>: self.visit_statement(stmt)
visit_statements(self, stmts) ==
    IF stmts = <<>> THEN self
    ELSE Bind(visit_statement(self, Head(stmts)),
              LAMBDA s1 : visit_statements(s1, Tail(stmts)))

visit_statement(self, n) ==
    IF n.kind = "VarDeclaration" THEN visit_var_declaration(self, n)
    ELSE IF n.kind = "Assignment" THEN visit_assignment(self, n)
    ELSE IF n.kind = "FunctionDef"
    THEN Bind(visit_function_def(self, n), LAMBDA r :
         IF r.entered
         THEN Bind(visit_statements(r.self, n.body), LAMBDA s1 :
              visit_function_def_exit(s1, [old_function |-> self.current_function,
                                           old_in_function |-> self.in_function]))
         ELSE r.self)
    ELSE IF n.kind = "IfStatement"
    THEN Bind(visit_if_statement(self, n), LAMBDA s1 :
         Bind(visit_statements(s1, n.then_block), LAMBDA s2 :
         Bind(visit_if_statement_else(s2, [else_block |-> ElseKind(n.else_block)]),
              LAMBDA s3 :
         IF ElseKind(n.else_block) = "stmts"
         THEN Bind(visit_statements(s3, n.else_block[1]), LAMBDA s4 :
              visit_if_statement_exit(s4))
         ELSE s3)))
    ELSE IF n.kind = "WhileLoop"
    THEN Bind(visit_while_loop(self, n), LAMBDA s1 :
         Bind(visit_statements(s1, n.body), LAMBDA s2 :
         visit_while_loop_exit(s2)))
    ELSE IF n.kind = "ReturnStatement" THEN visit_return_statement(self, n)
    ELSE IF n.kind = "PrintStatement" THEN visit_print_statement(self, n)
    ELSE IF n.kind = "FunctionCallStatement" THEN visit_function_call_statement(self, n)
    ELSE self

visit_program(self, n) == visit_statements(self, n.statements)

\* analyze: the analyzer after the walk, and whether errors[0] was raised.
analyze(self, tree) ==
    LET s1 == visit_program(self, tree)
    IN  [self |-> s1, raised |-> s1.errors # <<>>]

(***************************************************************************)
(* SpecSem: SemanticAnalyzer.analyze walking one AST.  The AST is drawn    *)
(* statement by statement as the walk reaches it (the analyzer never looks *)
(* ahead).  frames holds the activations of the block handlers that are in *)
(* the middle of a block, so its func entries are exactly the FuncDef      *)
(* bodies that enclose the statement being visited.                        *)
(***************************************************************************)
Self ==
    [scopes |-> scopes, current_scope |-> current_scope, errors |-> errors,
     current_function |-> current_function, in_function |-> in_function]

SetSelf(self) ==
    /\ scopes' = self.scopes
    /\ current_scope' = self.current_scope
    /\ errors' = self.errors
    /\ current_function' = self.current_function
    /\ in_function' = self.in_function

\* No compile is running.
NoCompiler ==
    /\ source_code = [lexes |-> FALSE, tokens |-> <<>>]
    /\ tokens = <<>>
    /\ ast = <<>>
    /\ tac = <<>>
    /\ pc = "done"
    /\ returned = <<>>
    /\ ran = <<>>
    /\ recovered = 0
    /\ recoveries = <<>>

\* analyzer = SemanticAnalyzer()
InitSem ==
    /\ NoCompiler
    /\ scopes = NewAnalyzer.scopes
    /\ current_scope = NewAnalyzer.current_scope
    /\ errors = NewAnalyzer.errors
    /\ current_function = NewAnalyzer.current_function
    /\ in_function = NewAnalyzer.in_function
    /\ frames = <<>>
    /\ node = NoNode
    /\ nstmts = 0
    /\ outcome = "walking"
    /\ ret = [op |-> "init"]

\* A block statement as the walk meets it: the fields its handler reads before
\* the blocks, which are drawn statement by statement as the walk goes through
\* them.  else_block is the ElseKind of the else-block to come, and body tells
\* whether the body of the function is "empty" or holds statements ("stmts").
FunctionDefHead(name, parameters, body) ==
    [kind |-> "FunctionDef", name |-> name, parameters |-> parameters, body |-> body]
IfStatementHead(condition, else_block) ==
    [kind |-> "IfStatement", condition |-> condition, else_block |-> else_block]
WhileLoopHead(condition) == [kind |-> "WhileLoop", condition |-> condition]

\* An else-block or a body drawn as "stmts" holds a statement before it ends,
\* and a body drawn as "empty" holds none.
Visited(fs) ==
    IF fs # <<>> /\ fs[Len(fs)].kind \in {"else", "func"}
    THEN [fs EXCEPT ![Len(fs)].visited = TRUE]
    ELSE fs

EmptyBody(fs) == fs # <<>> /\ fs[Len(fs)].kind = "func" /\ fs[Len(fs)].body = "empty"

Statements ==
    {VarDeclarationNode(i, v) : i \in Names, v \in Expressions}
    \cup {AssignmentNode(i, v) : i \in Names, v \in Expressions}
    \cup {FunctionDefHead(i, ps, b) : i \in Names, ps \in ParameterLists,
                                      b \in {"empty", "stmts"}}
    \cup {IfStatementHead(c, e) : c \in Conditions, e \in {"None", "empty", "stmts"}}
    \cup {WhileLoopHead(c) : c \in Conditions}
    \cup {ReturnStatementNode(v) : v \in Expressions}
    \cup {PrintStatementNode(v) : v \in Conditions}
    \cup {FunctionCallStatementNode(c) : c \in CallNodes}

\* "for stmt in ...": the loop of visit_program, or of the handler whose block
\* is being walked, takes the next statement of its list.
NextStatement ==
    /\ outcome = "walking"
    /\ node = NoNode
    /\ nstmts < MaxStmts
    /\ ~EmptyBody(frames)
    /\ \E n \in Statements :
        /\ n.kind \in {"FunctionDef", "IfStatement", "WhileLoop"} => Len(frames) < MaxNest
        /\ node' = n
    /\ nstmts' = nstmts + 1
    /\ frames' = Visited(frames)
    /\ UNCHANGED <<scopes, current_scope, errors, current_function, in_function,
                   outcome, ret>>
    /\ UNCHANGED drivervars

\* visit_statement dispatching on a statement without a block
Simple(self) ==
    /\ Len(self.errors) <= MaxErrors
    /\ SetSelf(self)
    /\ node' = NoNode
    /\ UNCHANGED <<frames, nstmts, outcome, ret>>
    /\ UNCHANGED drivervars

\* visit_statement dispatching on a statement with a block: the handler stays
\* active, as activation, until the block ends
Block(self, activation) ==
    /\ Len(self.errors) <= MaxErrors
    /\ SetSelf(self)
    /\ node' = NoNode
    /\ frames' = Append(frames, activation)
    /\ UNCHANGED <<nstmts, outcome, ret>>
    /\ UNCHANGED drivervars

VisitVarDeclaration ==
    /\ node.kind = "VarDeclaration"
    /\ Simple(visit_var_declaration(Self, node))

VisitAssignment ==
    /\ node.kind = "Assignment"
    /\ Simple(visit_assignment(Self, node))

\* The innermost activation of visit_function_def, 0 when there is none.
EnclosingFunc(fs) ==
    LET S == {i \in 1..Len(fs) : fs[i].kind = "func"}
    IN  IF S = {} THEN 0 ELSE CHOOSE i \in S : \A j \in S : j <= i

\* returned records, for the properties, that the body has had a Return visited.
Returned(fs) ==
    IF EnclosingFunc(fs) = 0 THEN fs
    ELSE [fs EXCEPT ![EnclosingFunc(fs)].returned = TRUE]

VisitReturnStatement ==
    /\ node.kind = "ReturnStatement"
    /\ LET self == visit_return_statement(Self, node)
       IN  /\ Len(self.errors) <= MaxErrors
           /\ SetSelf(self)
           /\ node' = NoNode
           /\ frames' = Returned(frames)
           /\ UNCHANGED <<nstmts, outcome, ret>>
           /\ UNCHANGED drivervars

VisitPrintStatement ==
    /\ node.kind = "PrintStatement"
    /\ Simple(visit_print_statement(Self, node))

VisitFunctionCallStatement ==
    /\ node.kind = "FunctionCallStatement"
    /\ Simple(visit_function_call_statement(Self, node))

VisitFunctionDef ==
    /\ node.kind = "FunctionDef"
    /\ LET r == visit_function_def(Self, node)
       IN  IF r.entered
           THEN Block(r.self, [kind |-> "func", name |-> node.name,
                               old_function |-> current_function,
                               old_in_function |-> in_function,
                               returned |-> FALSE, body |-> node.body,
                               visited |-> FALSE])
           ELSE Simple(r.self)

VisitIfStatement ==
    /\ node.kind = "IfStatement"
    /\ Block(visit_if_statement(Self, node),
             [kind |-> "then", else_block |-> node.else_block])

VisitWhileLoop ==
    /\ node.kind = "WhileLoop"
    /\ Block(visit_while_loop(Self, node), [kind |-> "while"])

\* The block being walked has no further statement: its handler goes on.
EndBlock ==
    /\ outcome = "walking"
    /\ node = NoNode
    /\ frames # <<>>
    /\ LET activation == frames[Len(frames)]
           rest == SubSeq(frames, 1, Len(frames) - 1)
       IN  /\ activation.kind = "else" => activation.visited
           /\ (activation.kind = "func" /\ activation.body = "stmts") => activation.visited
           /\ IF activation.kind = "func"
              THEN /\ SetSelf(visit_function_def_exit(Self, activation))
                   /\ frames' = rest
              ELSE IF activation.kind = "then"
              THEN /\ SetSelf(visit_if_statement_else(Self, activation))
                   /\ frames' = IF activation.else_block = "stmts"
                                THEN Append(rest, [kind |-> "else", visited |-> FALSE])
                                ELSE rest
              ELSE IF activation.kind = "else"
              THEN /\ SetSelf(visit_if_statement_exit(Self))
                   /\ frames' = rest
              ELSE /\ SetSelf(visit_while_loop_exit(Self))
                   /\ frames' = rest
    /\ UNCHANGED <<node, nstmts, outcome, ret>>
    /\ UNCHANGED drivervars

\* visit_program has visited the last statement: analyze raises the first
\* diagnostic if there is one.
Analyzed ==
    /\ outcome = "walking"
    /\ node = NoNode
    /\ frames = <<>>
    /\ outcome' = IF errors # <<>> THEN "SemanticError" ELSE "ok"
    /\ UNCHANGED <<scopes, current_scope, errors, current_function, in_function,
                   frames, node, nstmts, ret>>
    /\ UNCHANGED drivervars

NextSem ==
    \/ NextStatement
    \/ VisitVarDeclaration
    \/ VisitAssignment
    \/ VisitFunctionDef
    \/ VisitIfStatement
    \/ VisitWhileLoop
    \/ VisitReturnStatement
    \/ VisitPrintStatement
    \/ VisitFunctionCallStatement
    \/ EndBlock
    \/ Analyzed

SpecSem == InitSem /\ [][NextSem]_vars

(***************************************************************************)
(* SpecTable: a caller that drives the SymbolTable directly, with any      *)
(* sequence of enter_scope, exit_scope, declare and lookup.                *)
(***************************************************************************)
TableTypes == {TREATS, YARN}

TheTable == Table(scopes, current_scope)

InitTable ==
    /\ NoCompiler
    /\ scopes = NewTable.scopes
    /\ current_scope = NewTable.current_scope
    /\ ret = [op |-> "init"]
    /\ errors = <<>>
    /\ current_function = None
    /\ in_function = FALSE
    /\ frames = <<>>
    /\ node = NoNode
    /\ nstmts = 0
    /\ outcome = "walking"

SetTable(t) ==
    /\ scopes' = t.scopes
    /\ current_scope' = t.current_scope

\* The analyzer and the compiler take no part in SpecTable.
TableOnly ==
    UNCHANGED <<errors, current_function, in_function, frames, node, nstmts, outcome,
                source_code, tokens, ast, tac, pc, returned, ran, recovered, recoveries>>

CallEnterScope ==
    /\ Len(scopes) < MaxScopes
    /\ SetTable(enter_scope(TheTable))
    /\ ret' = [op |-> "enter_scope"]
    /\ TableOnly

\* exit_scope has no raise statement: it always returns normally.  depth is the
\* depth of the stack when it was called.
CallExitScope ==
    /\ SetTable(exit_scope(TheTable))
    /\ ret' = [op |-> "exit_scope", raised |-> FALSE, depth |-> Len(scopes)]
    /\ TableOnly

CallDeclare ==
    /\ \E name \in Names, data_type \in TableTypes :
        LET symbol == Symbol(name, data_type, current_scope, FALSE, <<>>)
            r == declare(TheTable, symbol)
        IN  /\ SetTable(r.table)
            /\ ret' = [op |-> "declare", symbol |-> symbol, raised |-> r.raised]
    /\ TableOnly

CallLookup ==
    /\ \E name \in Names :
        ret' = [op |-> "lookup", name |-> name, value |-> lookup(TheTable, name)]
    /\ UNCHANGED <<scopes, current_scope>>
    /\ TableOnly

\* The operators parse_logical_or .. parse_multiplication build a BinaryOpNode with.
BinaryOperators ==
    {"||", "&&", "==", "!=", "<", ">", "<=", ">=", "+", "-", "*", "/", "%"}

\* analyzer.visit_binary_op(node) on an analyzer that holds the table: ret keeps
\* the node's operator, the types of its operands, the type returned and the
\* diagnostics the call added.
CallVisitBinaryOp ==
    /\ \E operator \in BinaryOperators, left \in LeafNodes, right \in LeafNodes :
        \E r \in {visit_binary_op(BinaryOpNode(operator, left, right), TheTable)} :
            ret' = [op |-> "visit_binary_op", operator |-> operator,
                    left_type |-> visit_expression(left, TheTable).type,
                    right_type |-> visit_expression(right, TheTable).type,
                    type |-> r.type, errs |-> r.errs]
    /\ UNCHANGED <<scopes, current_scope>>
    /\ TableOnly

NextTable ==
    \/ CallEnterScope
    \/ CallExitScope
    \/ CallDeclare
    \/ CallLookup

SpecTable == InitTable /\ [][NextTable]_vars

(***************************************************************************)
(* SpecExpr: a caller that declares variables in the program scope and has *)
(* binary operations over literals and names typed against them.           *)
(***************************************************************************)
NextExpr ==
    \/ CallDeclare
    \/ CallVisitBinaryOp

SpecExpr == InitTable /\ [][NextExpr]_vars

(***************************************************************************)
(* class Parser (src/src/parser.py), as operators on the token list toks   *)
(* and the parser p = [pos, recovered, recoveries]: pos is self.pos        *)
(* (current_token is always tokens[pos]), recovered counts the "Attempting *)
(* to recover..." lines printed so far and recoveries keeps, for each      *)
(* recover_from_error call, self.pos at the call and at its end.           *)
(* A method returns [raised, p, node]: the parser after the call and      *)
(* either the value returned or the ParserError raised.                    *)
(***************************************************************************)
Token(type, value) == [type |-> type, value |-> value]

NewParser == [pos |-> 0, recovered |-> 0, recoveries |-> <<>>]

Ok(p, value) == [raised |-> FALSE, p |-> p, node |-> value]

\* raise ParserError(message, self.current_token)
Raise(p, message) ==
    [raised |-> TRUE, p |-> p,
     node |-> [kind |-> "ParserError", message |-> message, pos |-> p.pos]]

\* "r = <call>" followed by then(r): an exception the call raises propagates.
Try(call, then(_)) == Bind(call, LAMBDA r : IF r.raised THEN r ELSE then(r))

current_token(toks, p) == toks[p.pos + 1]

advance(toks, p) ==
    IF p.pos < Len(toks) - 1 THEN [p EXCEPT !.pos = @ + 1] ELSE p

\* peek(): the token after the current one, or None
peek(toks, p) ==
    IF p.pos + 1 < Len(toks) THEN toks[p.pos + 2] ELSE Token(None, None)

expect(toks, p, token_type) ==
    IF current_token(toks, p).type # token_type
    THEN Raise(p, "Expected " \o token_type)
    ELSE Ok(advance(toks, p), current_token(toks, p))

match(toks, p, token_types) == current_token(toks, p).type \in token_types

\* A synchronization set without Sleep.
sync_tokens_open == {"BOX", "HUNT", "PURR", "CHASE", "BRING", "MEOW", "RBRACE", "EOF"}

sync_tokens == {"BOX", "HUNT", "PURR", "CHASE", "BRING", "MEOW", "RBRACE", "SLEEP", "EOF"}

\* A recovery that advances over nothing.
recover_from_error_stay(toks, p) == p

RECURSIVE recover_from_error(_, _)
recover_from_error(toks, p) ==
    IF match(toks, p, sync_tokens) THEN p
    ELSE Bind(advance(toks, p), LAMBDA q : recover_from_error(toks, q))

RECURSIVE parse_expression(_, _)
RECURSIVE parse_logical_and(_, _)
RECURSIVE parse_equality(_, _)
RECURSIVE parse_comparison(_, _)
RECURSIVE parse_addition(_, _)
RECURSIVE parse_multiplication(_, _)
RECURSIVE parse_unary(_, _)
RECURSIVE parse_function_call(_, _)
RECURSIVE binary_loop(_, _, _, _)
RECURSIVE arg_loop(_, _, _)

\* Levels in which + and - bind tighter than *, / and %.
LevelTokensAdditionTighter(level) ==
    CASE level = 1 -> {"OR"}
      [] level = 2 -> {"AND"}
      [] level = 3 -> {"EQUAL", "NOT_EQUAL"}
      [] level = 4 -> {"LESS", "GREATER", "LESS_EQUAL", "GREATER_EQUAL"}
      [] level = 5 -> {"MULTIPLY", "DIVIDE", "MODULO"}
      [] level = 6 -> {"PLUS", "MINUS"}

\* The binary levels, loosest first: the tokens of a level and what it parses
\* for an operand.
LevelTokens(level) ==
    CASE level = 1 -> {"OR"}
      [] level = 2 -> {"AND"}
      [] level = 3 -> {"EQUAL", "NOT_EQUAL"}
      [] level = 4 -> {"LESS", "GREATER", "LESS_EQUAL", "GREATER_EQUAL"}
      [] level = 5 -> {"PLUS", "MINUS"}
      [] level = 6 -> {"MULTIPLY", "DIVIDE", "MODULO"}

LevelOperand(toks, p, level) ==
    CASE level = 1 -> parse_logical_and(toks, p)
      [] level = 2 -> parse_equality(toks, p)
      [] level = 3 -> parse_comparison(toks, p)
      [] level = 4 -> parse_addition(toks, p)
      [] level = 5 -> parse_multiplication(toks, p)
      [] level = 6 -> parse_unary(toks, p)

\* operator='||' and operator='&&' are literals, the other levels take op_token.value
LevelOperator(level, op_token) ==
    IF level = 1 THEN "||" ELSE IF level = 2 THEN "&&" ELSE op_token.value

\* while self.match(<the level's tokens>): advance, parse the right operand,
\* left = BinaryOpNode(op, left, right)
binary_loop(toks, p, left, level) ==
    IF ~match(toks, p, LevelTokens(level)) THEN Ok(p, left)
    ELSE Bind(advance(toks, p), LAMBDA q :
         Try(LevelOperand(toks, q, level), LAMBDA right :
         Bind(BinaryOpNode(LevelOperator(level, current_token(toks, p)),
                           left, right.node),
              LAMBDA l : binary_loop(toks, right.p, l, level))))

parse_logical_or(toks, p) ==
    Try(parse_logical_and(toks, p), LAMBDA left :
    binary_loop(toks, left.p, left.node, 1))

parse_logical_and(toks, p) ==
    Try(parse_equality(toks, p), LAMBDA left :
    binary_loop(toks, left.p, left.node, 2))

parse_equality(toks, p) ==
    Try(parse_comparison(toks, p), LAMBDA left :
    binary_loop(toks, left.p, left.node, 3))

parse_comparison(toks, p) ==
    Try(parse_addition(toks, p), LAMBDA left :
    binary_loop(toks, left.p, left.node, 4))

parse_addition(toks, p) ==
    Try(parse_multiplication(toks, p), LAMBDA left :
    binary_loop(toks, left.p, left.node, 5))

parse_multiplication(toks, p) ==
    Try(parse_unary(toks, p), LAMBDA left :
    binary_loop(toks, left.p, left.node, 6))

parse_primary(toks, p) ==
    IF match(toks, p, {"INTEGER"}) THEN Ok(advance(toks, p), IntegerNode(current_token(toks, p).value))
    ELSE IF match(toks, p, {"FLOAT"}) THEN Ok(advance(toks, p), FloatNode(current_token(toks, p).value))
    ELSE IF match(toks, p, {"STRING"}) THEN Ok(advance(toks, p), StringNode(current_token(toks, p).value))
    ELSE IF match(toks, p, {"IDENTIFIER"})
    THEN IF peek(toks, p).type = "LPAREN"
         THEN parse_function_call(toks, p)
         ELSE Ok(advance(toks, p), IdentifierNode(current_token(toks, p).value))
    ELSE IF match(toks, p, {"LPAREN"})
    THEN Bind(advance(toks, p), LAMBDA q :
         Try(parse_expression(toks, q), LAMBDA expr :
         Try(expect(toks, expr.p, "RPAREN"), LAMBDA rparen :
         Ok(rparen.p, expr.node))))
    ELSE Raise(p, "Unexpected token in expression")

parse_unary(toks, p) ==
    IF match(toks, p, {"NOT", "MINUS"})
    THEN Bind(advance(toks, p), LAMBDA q :
         Try(parse_unary(toks, q), LAMBDA operand :
         Ok(operand.p, UnaryOpNode(current_token(toks, p).value, operand.node))))
    ELSE parse_primary(toks, p)

parse_expression(toks, p) == parse_logical_or(toks, p)

\* while self.match(COMMA): advance, args.append(self.parse_expression())
arg_loop(toks, p, args) ==
    IF ~match(toks, p, {"COMMA"}) THEN Ok(p, args)
    ELSE Bind(advance(toks, p), LAMBDA q :
         Try(parse_expression(toks, q), LAMBDA arg :
         Bind(Append(args, arg.node), LAMBDA l : arg_loop(toks, arg.p, l))))

parse_arg_list(toks, p) ==
    IF match(toks, p, {"RPAREN"}) THEN Ok(p, <<>>)
    ELSE Try(parse_expression(toks, p), LAMBDA arg :
         arg_loop(toks, arg.p, <<arg.node>>))

parse_function_call(toks, p) ==
    Try(expect(toks, p, "IDENTIFIER"), LAMBDA name_token :
    Try(expect(toks, name_token.p, "LPAREN"), LAMBDA lparen :
    Try(parse_arg_list(toks, lparen.p), LAMBDA arguments :
    Try(expect(toks, arguments.p, "RPAREN"), LAMBDA rparen :
    Ok(rparen.p, FunctionCallNode(name_token.node.value, arguments.node))))))

RECURSIVE parse_statement(_, _)
RECURSIVE parse_statement_list_loop(_, _, _)
RECURSIVE param_loop(_, _, _)

\* One iteration of the loop of parse_statement_list: the parser and the list
\* after it.  A ParserError raised by parse_statement is caught here: it is
\* printed, recover_from_error runs, and the loop goes on.
statement_list_iteration(toks, p, statements) ==
    Bind(parse_statement(toks, p), LAMBDA stmt :
    IF stmt.raised
    THEN Bind(recover_from_error(toks, [stmt.p EXCEPT !.recovered = @ + 1]), LAMBDA q :
         Ok([q EXCEPT !.recoveries = Append(@, [from |-> stmt.p.pos, to |-> q.pos])],
            statements))
    ELSE Ok(stmt.p, IF stmt.node # NoNode THEN Append(statements, stmt.node)
                    ELSE statements))

\* while not self.match(SLEEP, RBRACE, EOF): <iteration>
parse_statement_list_loop(toks, p, statements) ==
    IF match(toks, p, {"SLEEP", "RBRACE", "EOF"}) THEN Ok(p, statements)
    ELSE Bind(statement_list_iteration(toks, p, statements), LAMBDA it :
         parse_statement_list_loop(toks, it.p, it.node))

parse_statement_list(toks, p) == parse_statement_list_loop(toks, p, <<>>)

parse_var_declaration(toks, p) ==
    Try(expect(toks, p, "BOX"), LAMBDA box_token :
    Try(expect(toks, box_token.p, "IDENTIFIER"), LAMBDA identifier_token :
    Try(expect(toks, identifier_token.p, "PAWS"), LAMBDA paws :
    Try(parse_expression(toks, paws.p), LAMBDA value :
    Ok(value.p, VarDeclarationNode(identifier_token.node.value, value.node))))))

parse_assignment(toks, p) ==
    Try(expect(toks, p, "IDENTIFIER"), LAMBDA identifier_token :
    Try(expect(toks, identifier_token.p, "PAWS"), LAMBDA paws :
    Try(parse_expression(toks, paws.p), LAMBDA value :
    Ok(value.p, AssignmentNode(identifier_token.node.value, value.node)))))

\* while self.match(COMMA): advance, expect an IDENTIFIER, params.append(its value)
param_loop(toks, p, params) ==
    IF ~match(toks, p, {"COMMA"}) THEN Ok(p, params)
    ELSE Bind(advance(toks, p), LAMBDA q :
         Try(expect(toks, q, "IDENTIFIER"), LAMBDA param_token :
         Bind(Append(params, param_token.node.value),
              LAMBDA l : param_loop(toks, param_token.p, l))))

parse_param_list(toks, p) ==
    IF match(toks, p, {"IDENTIFIER"})
    THEN Bind(advance(toks, p), LAMBDA q :
         param_loop(toks, q, <<current_token(toks, p).value>>))
    ELSE Ok(p, <<>>)

\* expect(LBRACE), parse_statement_list(), expect(RBRACE)
parse_block(toks, p) ==
    Try(expect(toks, p, "LBRACE"), LAMBDA lbrace :
    Try(parse_statement_list(toks, lbrace.p), LAMBDA body :
    Try(expect(toks, body.p, "RBRACE"), LAMBDA rbrace :
    Ok(rbrace.p, body.node))))

\* expect(LPAREN), parse_expression(), expect(RPAREN)
parse_parenthesized(toks, p) ==
    Try(expect(toks, p, "LPAREN"), LAMBDA lparen :
    Try(parse_expression(toks, lparen.p), LAMBDA value :
    Try(expect(toks, value.p, "RPAREN"), LAMBDA rparen :
    Ok(rparen.p, value.node))))

parse_function_def(toks, p) ==
    Try(expect(toks, p, "HUNT"), LAMBDA hunt_token :
    Try(expect(toks, hunt_token.p, "IDENTIFIER"), LAMBDA name_token :
    Try(expect(toks, name_token.p, "LPAREN"), LAMBDA lparen :
    Try(parse_param_list(toks, lparen.p), LAMBDA parameters :
    Try(expect(toks, parameters.p, "RPAREN"), LAMBDA rparen :
    Try(parse_block(toks, rparen.p), LAMBDA body :
    Ok(body.p,
       FunctionDefNode(name_token.node.value, parameters.node, body.node))))))))

parse_if_statement(toks, p) ==
    Try(expect(toks, p, "PURR"), LAMBDA purr_token :
    Try(parse_parenthesized(toks, purr_token.p), LAMBDA condition :
    Try(parse_block(toks, condition.p), LAMBDA then_block :
    IF match(toks, then_block.p, {"HISS"})
    THEN Bind(advance(toks, then_block.p), LAMBDA q :
         Try(parse_block(toks, q), LAMBDA else_block :
         Ok(else_block.p,
            IfStatementNode(condition.node, then_block.node, <<else_block.node>>))))
    ELSE Ok(then_block.p, IfStatementNode(condition.node, then_block.node, <<>>)))))

parse_while_loop(toks, p) ==
    Try(expect(toks, p, "CHASE"), LAMBDA chase_token :
    Try(parse_parenthesized(toks, chase_token.p), LAMBDA condition :
    Try(parse_block(toks, condition.p), LAMBDA body :
    Ok(body.p, WhileLoopNode(condition.node, body.node)))))

parse_return_statement(toks, p) ==
    Try(expect(toks, p, "BRING"), LAMBDA bring_token :
    Try(parse_expression(toks, bring_token.p), LAMBDA value :
    Ok(value.p, ReturnStatementNode(value.node))))

parse_print_statement(toks, p) ==
    Try(expect(toks, p, "MEOW"), LAMBDA meow_token :
    Try(parse_parenthesized(toks, meow_token.p), LAMBDA value :
    Ok(value.p, PrintStatementNode(value.node))))

parse_statement(toks, p) ==
    IF match(toks, p, {"BOX"}) THEN parse_var_declaration(toks, p)
    ELSE IF match(toks, p, {"HUNT"}) THEN parse_function_def(toks, p)
    ELSE IF match(toks, p, {"PURR"}) THEN parse_if_statement(toks, p)
    ELSE IF match(toks, p, {"CHASE"}) THEN parse_while_loop(toks, p)
    ELSE IF match(toks, p, {"BRING"}) THEN parse_return_statement(toks, p)
    ELSE IF match(toks, p, {"MEOW"}) THEN parse_print_statement(toks, p)
    ELSE IF match(toks, p, {"IDENTIFIER"})
    THEN IF peek(toks, p).type = "PAWS" THEN parse_assignment(toks, p)
         ELSE IF peek(toks, p).type = "LPAREN"
         THEN Try(parse_function_call(toks, p), LAMBDA call :
              Ok(call.p, FunctionCallStatementNode(call.node)))
         ELSE Raise(p, "Unexpected identifier")
    ELSE IF match(toks, p, {"EOF"}) THEN Ok(p, NoNode)
    ELSE Raise(p, "Unexpected token")

parse_program(toks, p) ==
    Try(expect(toks, p, "WAKE"), LAMBDA wake_token :
    Try(parse_statement_list(toks, wake_token.p), LAMBDA statements :
    Try(expect(toks, statements.p, "SLEEP"), LAMBDA sleep :
    Try(expect(toks, sleep.p, "EOF"), LAMBDA eof :
    Ok(eof.p, ProgramNode(statements.node))))))

\* parse: parse_program, a ParserError printed and raised again
parse(toks, p) == parse_program(toks, p)

(***************************************************************************)
(* Spec: MeowScriptCompiler.compile (src/src/main.py) on one source.  The  *)
(* lexer is taken by its result: a source either makes tokenize raise      *)
(* LexerError or lexes to a token list that ends with the EOF token.       *)
(* An attribute that is None in the code is Unset here, and one holding v  *)
(* is Some(v).                                                             *)
(***************************************************************************)
Unset == <<>>
Some(v) == <<v>>

\* The tokens the sources are made of, and the EOF token tokenize appends.
TokenAlphabet ==
    {Token("WAKE", "Wake"), Token("SLEEP", "Sleep"), Token("BOX", "Box"),
     Token("BRING", "Bring"), Token("IDENTIFIER", "x"), Token("PAWS", "paws"),
     Token("INTEGER", "1")}

EOFToken == Token("EOF", None)

TokenLists == UNION {[1..k -> TokenAlphabet] : k \in 0..MaxTokens}

Sources ==
    {[lexes |-> FALSE, tokens |-> <<>>]}
    \cup {[lexes |-> TRUE, tokens |-> Append(ts, EOFToken)] : ts \in TokenLists}

\* The phases, in the order compile calls them.
PhaseOrder ==
    <<"lexical_analysis", "syntax_analysis", "semantic_analysis", "code_generation">>

(***************************************************************************)
(* class CodeGenerator (src/src/codegen.py), as operators on the generator *)
(* g = [instructions, temp_counter, label_counter, current_function].  The *)
(* visitors of the analyzer have the same names in the source, so these    *)
(* carry the prefix gen_.  An expression visitor returns [g, temp]: the    *)
(* generator after the call and the name that holds the value.             *)
(***************************************************************************)
TACInstruction(operation, arg1, arg2, result) ==
    [operation |-> operation, arg1 |-> arg1, arg2 |-> arg2, result |-> result]

\* CodeGenerator.__init__
NewGenerator ==
    [instructions |-> <<>>, temp_counter |-> 0, label_counter |-> 0,
     current_function |-> None]

new_temp(g) ==
    [g |-> [g EXCEPT !.temp_counter = @ + 1], name |-> "t" \o ToString(g.temp_counter)]

\* A new_label that never advances the counter.
new_label_reused(g) == [g |-> g, name |-> "L" \o ToString(g.label_counter)]

new_label(g) ==
    [g |-> [g EXCEPT !.label_counter = @ + 1], name |-> "L" \o ToString(g.label_counter)]

emit(g, operation, arg1, arg2, result) ==
    [g EXCEPT !.instructions = Append(@, TACInstruction(operation, arg1, arg2, result))]

Held(g, temp) == [g |-> g, temp |-> temp]

RECURSIVE gen_visit_expression(_, _)
RECURSIVE gen_visit_arguments(_, _)

gen_visit_binary_op(g, n) ==
    Bind(gen_visit_expression(g, n.left), LAMBDA left :
    Bind(gen_visit_expression(left.g, n.right), LAMBDA right :
    Bind(new_temp(right.g), LAMBDA result :
    Held(emit(result.g, n.operator, left.temp, right.temp, result.name), result.name))))

gen_visit_unary_op(g, n) ==
    Bind(gen_visit_expression(g, n.operand), LAMBDA operand :
    Bind(new_temp(operand.g), LAMBDA result :
    Held(emit(result.g, n.operator, operand.temp, None, result.name), result.name)))

\* for arg in node.arguments: visit_expression(arg), emit('param', arg_temp)
gen_visit_arguments(g, arguments) ==
    IF arguments = <<>> THEN g
    ELSE Bind(gen_visit_expression(g, Head(arguments)), LAMBDA arg :
         gen_visit_arguments(emit(arg.g, "param", arg.temp, None, None), Tail(arguments)))

gen_visit_function_call(g, n) ==
    Bind(gen_visit_arguments(g, n.arguments), LAMBDA g1 :
    Bind(new_temp(g1), LAMBDA result :
    Held(emit(result.g, "call", n.name, ToString(Len(n.arguments)), result.name),
         result.name)))

gen_visit_expression(g, n) ==
    IF n.kind = "BinaryOp" THEN gen_visit_binary_op(g, n)
    ELSE IF n.kind = "UnaryOp" THEN gen_visit_unary_op(g, n)
    ELSE IF n.kind = "Integer" THEN Held(g, n.value)
    ELSE IF n.kind = "Float" THEN Held(g, n.value)
    ELSE IF n.kind = "String" THEN Held(g, "\"" \o n.value \o "\"")
    ELSE IF n.kind = "Identifier" THEN Held(g, n.name)
    ELSE IF n.kind = "FunctionCall" THEN gen_visit_function_call(g, n)
    ELSE Bind(new_temp(g), LAMBDA temp :
         Held(emit(temp.g, "=", "0", None, temp.name), temp.name))

RECURSIVE gen_visit_statement(_, _)
RECURSIVE gen_visit_statements(_, _)

\* for stmt in <block>: self.visit_statement(stmt)
gen_visit_statements(g, stmts) ==
    IF stmts = <<>> THEN g
    ELSE Bind(gen_visit_statement(g, Head(stmts)), LAMBDA g1 :
         gen_visit_statements(g1, Tail(stmts)))

gen_visit_var_declaration(g, n) ==
    Bind(gen_visit_expression(g, n.value), LAMBDA value :
    emit(value.g, "=", value.temp, None, n.identifier))

gen_visit_assignment(g, n) ==
    Bind(gen_visit_expression(g, n.value), LAMBDA value :
    emit(value.g, "=", value.temp, None, n.identifier))

gen_visit_function_def(g, n) ==
    Bind(emit([g EXCEPT !.current_function = n.name], "begin_func", n.name, None, None),
         LAMBDA g1 :
    Bind(gen_visit_statements(g1, n.body), LAMBDA g2 :
    [emit(g2, "end_func", n.name, None, None)
        EXCEPT !.current_function = g.current_function]))

\* "if node.else_block" holds for a list with a statement in it only.
gen_visit_if_statement(g, n) ==
    Bind(gen_visit_expression(g, n.condition), LAMBDA condition :
    IF ElseKind(n.else_block) = "stmts"
    THEN Bind(new_label(condition.g), LAMBDA else_label :
         Bind(new_label(else_label.g), LAMBDA end_label :
         Bind(emit(end_label.g, "if_false", condition.temp, None, else_label.name),
              LAMBDA g1 :
         Bind(gen_visit_statements(g1, n.then_block), LAMBDA g2 :
         Bind(emit(emit(g2, "goto", None, None, end_label.name),
                   "label", None, None, else_label.name), LAMBDA g3 :
         Bind(gen_visit_statements(g3, n.else_block[1]), LAMBDA g4 :
         emit(g4, "label", None, None, end_label.name)))))))
    ELSE Bind(new_label(condition.g), LAMBDA end_label :
         Bind(emit(end_label.g, "if_false", condition.temp, None, end_label.name),
              LAMBDA g1 :
         Bind(gen_visit_statements(g1, n.then_block), LAMBDA g2 :
         emit(g2, "label", None, None, end_label.name)))))

\* A loop head that evaluates the condition before the start label.
gen_visit_while_loop_head_once(g, n, start_label, end_label) ==
    Bind(gen_visit_expression(g, n.condition), LAMBDA condition :
    emit(emit(condition.g, "label", None, None, start_label),
         "if_false", condition.temp, None, end_label))

\* visit_while_loop from the start label to the if_false
gen_visit_while_loop_head(g, n, start_label, end_label) ==
    Bind(gen_visit_expression(emit(g, "label", None, None, start_label), n.condition),
         LAMBDA condition :
    emit(condition.g, "if_false", condition.temp, None, end_label))

gen_visit_while_loop(g, n) ==
    Bind(new_label(g), LAMBDA start_label :
    Bind(new_label(start_label.g), LAMBDA end_label :
    Bind(gen_visit_while_loop_head(end_label.g, n, start_label.name, end_label.name),
         LAMBDA g1 :
    Bind(gen_visit_statements(g1, n.body), LAMBDA g2 :
    emit(emit(g2, "goto", None, None, start_label.name),
         "label", None, None, end_label.name)))))

gen_visit_return_statement(g, n) ==
    Bind(gen_visit_expression(g, n.value), LAMBDA value :
    emit(value.g, "return", value.temp, None, None))

gen_visit_print_statement(g, n) ==
    Bind(gen_visit_expression(g, n.value), LAMBDA value :
    emit(value.g, "print", value.temp, None, None))

gen_visit_function_call_statement(g, n) == gen_visit_function_call(g, n.call).g

gen_visit_statement(g, n) ==
    IF n.kind = "VarDeclaration" THEN gen_visit_var_declaration(g, n)
    ELSE IF n.kind = "Assignment" THEN gen_visit_assignment(g, n)
    ELSE IF n.kind = "FunctionDef" THEN gen_visit_function_def(g, n)
    ELSE IF n.kind = "IfStatement" THEN gen_visit_if_statement(g, n)
    ELSE IF n.kind = "WhileLoop" THEN gen_visit_while_loop(g, n)
    ELSE IF n.kind = "ReturnStatement" THEN gen_visit_return_statement(g, n)
    ELSE IF n.kind = "PrintStatement" THEN gen_visit_print_statement(g, n)
    ELSE IF n.kind = "FunctionCallStatement" THEN gen_visit_function_call_statement(g, n)
    ELSE g

gen_visit_program(g, n) == gen_visit_statements(g, n.statements)

\* generator = CodeGenerator(); generator.generate(ast): the instruction list
generate(tree) == gen_visit_program(NewGenerator, tree).instructions

\* MeowScriptCompiler.__init__
Init ==
    /\ source_code \in Sources
    /\ tokens = Unset
    /\ ast = Unset
    /\ tac = Unset
    /\ pc = "lexical_analysis"
    /\ returned = Unset
    /\ ran = <<>>
    /\ recovered = 0
    /\ recoveries = <<>>
    /\ scopes = NewAnalyzer.scopes
    /\ current_scope = NewAnalyzer.current_scope
    /\ errors = NewAnalyzer.errors
    /\ current_function = NewAnalyzer.current_function
    /\ in_function = NewAnalyzer.in_function
    /\ frames = <<>>
    /\ node = NoNode
    /\ nstmts = 0
    /\ outcome = "walking"
    /\ ret = [op |-> "init"]

\* A phase returned True (compile goes on to phase next) or False (compile
\* returns False).
PhaseReturns(ok, next) ==
    /\ pc' = IF ok THEN next ELSE "done"
    /\ returned' = IF ok THEN returned ELSE Some(FALSE)

lexical_analysis ==
    /\ pc = "lexical_analysis"
    /\ ran' = Append(ran, "lexical_analysis")
    /\ tokens' = IF source_code.lexes THEN Some(source_code.tokens) ELSE tokens
    /\ PhaseReturns(source_code.lexes, "syntax_analysis")
    /\ UNCHANGED <<source_code, ast, tac, recovered, recoveries, semvars, ret>>

syntax_analysis ==
    /\ pc = "syntax_analysis"
    /\ ran' = Append(ran, "syntax_analysis")
    /\ \E r \in {parse(tokens[1], NewParser)} :
           /\ ast' = IF r.raised THEN ast ELSE Some(r.node)
           /\ recovered' = r.p.recovered
           /\ recoveries' = r.p.recoveries
           /\ PhaseReturns(~r.raised, "semantic_analysis")
    /\ UNCHANGED <<source_code, tokens, tac, semvars, ret>>

\* A semantic_analysis that returns True whatever analyze raised.
semantic_analysis_ignored ==
    /\ pc = "semantic_analysis"
    /\ ran' = Append(ran, "semantic_analysis")
    /\ \E r \in {analyze(NewAnalyzer, ast[1])} :
           /\ SetSelf(r.self)
           /\ PhaseReturns(TRUE, "code_generation")
    /\ UNCHANGED <<source_code, tokens, ast, tac, recovered, recoveries,
                   frames, node, nstmts, outcome, ret>>

semantic_analysis ==
    /\ pc = "semantic_analysis"
    /\ ran' = Append(ran, "semantic_analysis")
    /\ \E r \in {analyze(NewAnalyzer, ast[1])} :
           /\ SetSelf(r.self)
           /\ PhaseReturns(~r.raised, "code_generation")
    /\ UNCHANGED <<source_code, tokens, ast, tac, recovered, recoveries,
                   frames, node, nstmts, outcome, ret>>

code_generation ==
    /\ pc = "code_generation"
    /\ ran' = Append(ran, "code_generation")
    /\ tac' = Some(generate(ast[1]))
    /\ pc' = "done"
    /\ returned' = Some(TRUE)
    /\ UNCHANGED <<source_code, tokens, ast, recovered, recoveries, semvars, ret>>

Next ==
    \/ lexical_analysis
    \/ syntax_analysis
    \/ semantic_analysis
    \/ code_generation

Spec == Init /\ [][Next]_vars

(***************************************************************************)
(* SpecGen: CodeGenerator().generate(ast) on the AST of a valid program    *)
(* (one the analyzer accepts), as the tests call it.  ast is the program   *)
(* and tac the instruction list returned.                                  *)
(***************************************************************************)
\* The identifiers of the programs: t0 has the form of a temporary's name.
GenNames == {"x", "t0"}

GenValues ==
    {IntegerNode("1"), BinaryOpNode("+", IntegerNode("1"), IntegerNode("2")),
     UnaryOpNode("-", IdentifierNode("x"))}

GenConditions ==
    {IntegerNode("1"), BinaryOpNode("<", IdentifierNode("x"), IntegerNode("3"))}

GenSimple ==
    {VarDeclarationNode(i, v) : i \in GenNames, v \in GenValues}
    \cup {AssignmentNode(i, BinaryOpNode("+", IdentifierNode("x"), IntegerNode("1"))) :
            i \in GenNames}
    \cup {PrintStatementNode(v) : v \in {IntegerNode("1"), IdentifierNode("t0")}}
    \cup {FunctionCallStatementNode(FunctionCallNode("f", <<IntegerNode("1")>>)),
          FunctionCallStatementNode(FunctionCallNode("g", <<IntegerNode("1"), IntegerNode("2")>>)),
          FunctionCallStatementNode(
              FunctionCallNode("g", <<IntegerNode("1"),
                                      FunctionCallNode("g", <<IntegerNode("2"),
                                                              IntegerNode("3")>>)>>))}

\* The blocks of Purr, Hiss and Chase: empty or one statement.
GenBodies ==
    {<<>>, <<PrintStatementNode(IntegerNode("2"))>>,
     <<AssignmentNode("x", BinaryOpNode("+", IdentifierNode("x"), IntegerNode("1")))>>}

GenElseBlocks == {<<>>} \cup {<<b>> : b \in GenBodies}

GenBlocks ==
    {IfStatementNode(c, t, e) : c \in GenConditions, t \in GenBodies, e \in GenElseBlocks}
    \cup {WhileLoopNode(c, b) : c \in GenConditions, b \in GenBodies}
    \cup {FunctionDefNode("f", <<"x">>, <<ReturnStatementNode(IdentifierNode("x"))>>),
          FunctionDefNode("g", <<"x", "t0">>, <<ReturnStatementNode(IdentifierNode("x"))>>)}

\* Blocks inside the body of a Chase or in both branches of a Purr.
GenNested ==
    {WhileLoopNode(IntegerNode("1"), <<b>>) :
        b \in {WhileLoopNode(IntegerNode("1"), <<>>),
               IfStatementNode(IntegerNode("1"), <<>>, <<>>),
               IfStatementNode(IntegerNode("1"), <<>>,
                               <<<<PrintStatementNode(IntegerNode("2"))>>>>)}}
    \cup {IfStatementNode(IntegerNode("1"), <<WhileLoopNode(IntegerNode("1"), <<>>)>>,
                          <<<<WhileLoopNode(IntegerNode("1"), <<>>)>>>>)}

GenStatements == GenSimple \cup GenBlocks \cup GenNested

Programs ==
    {ProgramNode(stmts) : stmts \in UNION {[1..k -> GenStatements] : k \in 0..MaxProgram}}

ValidPrograms == {p \in Programs : ~analyze(NewAnalyzer, p).raised}

InitGen ==
    /\ scopes = NewTable.scopes
    /\ current_scope = NewTable.current_scope
    /\ ret = [op |-> "init"]
    /\ errors = <<>>
    /\ current_function = None
    /\ in_function = FALSE
    /\ frames = <<>>
    /\ node = NoNode
    /\ nstmts = 0
    /\ outcome = "walking"
    /\ source_code = [lexes |-> FALSE, tokens |-> <<>>]
    /\ tokens = <<>>
    /\ ast \in {Some(p) : p \in ValidPrograms}
    /\ tac = Unset
    /\ pc = "done"
    /\ returned = <<>>
    /\ ran = <<>>
    /\ recovered = 0
    /\ recoveries = <<>>

\* tac = CodeGenerator().generate(ast)
Generate ==
    /\ ast # Unset
    /\ tac = Unset
    /\ tac' = Some(generate(ast[1]))
    /\ UNCHANGED <<source_code, tokens, ast, pc, returned, ran, recovered, recoveries,
                   semvars, ret>>

NextGen == Generate

SpecGen == InitGen /\ [][NextGen]_vars

(***************************************************************************)
(* SpecRegen: generate called again and again on one CodeGenerator.  ret   *)
(* holds the instance (g), the instance as it was before the last run      *)
(* (before) and the number of runs; ast is the program of the last run and *)
(* tac the list it returned.                                               *)
(***************************************************************************)
\* CodeGenerator.generate on the instance g: the instance after the run; the
\* list returned is its instructions.
CodeGenerator_generate(g, tree) == gen_visit_program(g, tree)

InitRegen ==
    /\ scopes = NewTable.scopes
    /\ current_scope = NewTable.current_scope
    /\ ret = [op |-> "CodeGenerator", g |-> NewGenerator, before |-> NewGenerator, runs |-> 0]
    /\ errors = <<>>
    /\ current_function = None
    /\ in_function = FALSE
    /\ frames = <<>>
    /\ node = NoNode
    /\ nstmts = 0
    /\ outcome = "walking"
    /\ source_code = [lexes |-> FALSE, tokens |-> <<>>]
    /\ tokens = <<>>
    /\ ast = Unset
    /\ tac = Unset
    /\ pc = "done"
    /\ returned = <<>>
    /\ ran = <<>>
    /\ recovered = 0
    /\ recoveries = <<>>

\* tac = generator.generate(ast)
GenerateOnInstance ==
    /\ ret.runs < MaxRuns
    /\ \E p \in ValidPrograms :
        /\ ast' = Some(p)
        /\ \E g \in {CodeGenerator_generate(ret.g, p)} :
            /\ ret' = [ret EXCEPT !.g = g, !.before = ret.g, !.runs = @ + 1]
            /\ tac' = Some(g.instructions)
    /\ UNCHANGED <<source_code, tokens, pc, returned, ran, recovered, recoveries, semvars>>

NextRegen == GenerateOnInstance

SpecRegen == InitRegen /\ [][NextRegen]_vars

(***************************************************************************)
(* SpecParse: Parser(tokens).parse() on one token list, with the loop of   *)
(* the top-level parse_statement_list taken one iteration at a step, and   *)
(* Parser(tokens).parse_expression() called on its own.  tokens is the     *)
(* list, ret the parser (p), the statements collected and whether a        *)
(* ParserError came out, and ast the ProgramNode parse returned.           *)
(***************************************************************************)
\* Token lists made of whole pieces of programs: brackets, statements, stray
\* tokens and loops whose block is closed.
ProgramPieces ==
    {<<Token("WAKE", "Wake")>>, <<Token("SLEEP", "Sleep")>>, <<Token("RBRACE", "}")>>,
     <<Token("BOX", "Box"), Token("IDENTIFIER", "x"), Token("PAWS", "paws"),
       Token("INTEGER", "1")>>,
     <<Token("BOX", "Box")>>, <<Token("IDENTIFIER", "x")>>, <<Token("INTEGER", "1")>>,
     <<Token("CHASE", "Chase"), Token("LPAREN", "("), Token("INTEGER", "1"),
       Token("RPAREN", ")"), Token("LBRACE", "{"), Token("BOX", "Box"),
       Token("RBRACE", "}")>>,
     <<Token("CHASE", "Chase"), Token("LPAREN", "("), Token("INTEGER", "1"),
       Token("RPAREN", ")"), Token("LBRACE", "{"), Token("IDENTIFIER", "x"),
       Token("PAWS", "paws"), Token("INTEGER", "1"), Token("RBRACE", "}")>>}

RECURSIVE Concat(_)
Concat(pieces) == IF pieces = <<>> THEN <<>> ELSE Head(pieces) \o Concat(Tail(pieces))

ProgramTokenLists ==
    {Concat(pieces) : pieces \in UNION {[1..k -> ProgramPieces] : k \in 0..MaxPieces}}

\* Token lists of expressions: terms joined by binary operators, a term being a
\* name or a parenthesized "name || name" behind unary operators.
OperatorTokens ==
    {Token("OR", "||"), Token("AND", "&&"), Token("EQUAL", "=="), Token("NOT_EQUAL", "!="),
     Token("LESS", "<"), Token("PLUS", "+"), Token("MINUS", "-"), Token("MULTIPLY", "*"),
     Token("MODULO", "%")}

UnaryPrefixes == {<<>>, <<Token("NOT", "!")>>, <<Token("MINUS", "-"), Token("NOT", "!")>>}

Operand(i) == Token("IDENTIFIER", "a" \o ToString(i))

Terms(i) ==
    {pre \o <<Operand(i)>> : pre \in UnaryPrefixes}
    \cup {pre \o <<Token("LPAREN", "("), Operand(i), Token("OR", "||"), Operand(i),
                   Token("RPAREN", ")")>> : pre \in UnaryPrefixes}

RECURSIVE Infix(_)
Infix(n) ==
    IF n = 0 THEN Terms(0)
    ELSE {e \o <<op>> \o t : e \in Infix(n - 1), op \in OperatorTokens, t \in Terms(n)}

ExpressionTokenLists == UNION {Infix(n) : n \in 0..MaxOperators}

InitParse ==
    /\ scopes = NewTable.scopes
    /\ current_scope = NewTable.current_scope
    /\ errors = <<>>
    /\ current_function = None
    /\ in_function = FALSE
    /\ frames = <<>>
    /\ node = NoNode
    /\ nstmts = 0
    /\ outcome = "walking"
    /\ source_code = [lexes |-> FALSE, tokens |-> <<>>]
    /\ tokens \in {Some(Append(ts, EOFToken)) : ts \in ProgramTokenLists \cup ExpressionTokenLists}
    /\ ast = Unset
    /\ tac = Unset
    /\ pc = "parse_program"
    /\ returned = <<>>
    /\ ran = <<>>
    /\ recovered = 0
    /\ recoveries = <<>>
    /\ ret = [op |-> "parse", p |-> NewParser, statements |-> <<>>, raised |-> FALSE]

ParserOnly ==
    UNCHANGED <<source_code, tokens, tac, returned, ran, recovered, recoveries, semvars>>

\* parse_program: wake_token = self.expect(WAKE)
ParseProgramWake ==
    /\ pc = "parse_program"
    /\ \E r \in {expect(tokens[1], ret.p, "WAKE")} :
        /\ ret' = [ret EXCEPT !.p = r.p, !.raised = r.raised]
        /\ pc' = IF r.raised THEN "done" ELSE "parse_statement_list"
    /\ UNCHANGED ast
    /\ ParserOnly

\* parse_statement_list: one iteration of its while loop
StatementListIteration ==
    /\ pc = "parse_statement_list"
    /\ ~match(tokens[1], ret.p, {"SLEEP", "RBRACE", "EOF"})
    /\ \E it \in {statement_list_iteration(tokens[1], ret.p, ret.statements)} :
        ret' = [ret EXCEPT !.p = it.p, !.statements = it.node]
    /\ UNCHANGED <<pc, ast>>
    /\ ParserOnly

\* A parse_program that does not look at what follows Sleep.
ParseProgramSleepOnly ==
    /\ pc = "parse_statement_list"
    /\ match(tokens[1], ret.p, {"SLEEP", "RBRACE", "EOF"})
    /\ \E r \in {Try(expect(tokens[1], ret.p, "SLEEP"), LAMBDA sleep :
                 Ok(sleep.p, ProgramNode(ret.statements)))} :
        /\ ret' = [ret EXCEPT !.p = r.p, !.raised = r.raised]
        /\ ast' = IF r.raised THEN ast ELSE Some(r.node)
    /\ pc' = "done"
    /\ ParserOnly

\* parse_statement_list leaves its loop and returns; parse_program expects Sleep
\* and EOF and returns the ProgramNode
ParseProgramSleep ==
    /\ pc = "parse_statement_list"
    /\ match(tokens[1], ret.p, {"SLEEP", "RBRACE", "EOF"})
    /\ \E r \in {Try(expect(tokens[1], ret.p, "SLEEP"), LAMBDA sleep :
                 Try(expect(tokens[1], sleep.p, "EOF"), LAMBDA eof :
                 Ok(eof.p, ProgramNode(ret.statements))))} :
        /\ ret' = [ret EXCEPT !.p = r.p, !.raised = r.raised]
        /\ ast' = IF r.raised THEN ast ELSE Some(r.node)
    /\ pc' = "done"
    /\ ParserOnly

\* Parser(tokens).parse_expression()
CallParseExpression ==
    /\ pc = "parse_program"
    /\ \E r \in {parse_expression(tokens[1], ret.p)} :
        ret' = [op |-> "parse_expression", p |-> r.p, raised |-> r.raised, node |-> r.node]
    /\ pc' = "done"
    /\ UNCHANGED ast
    /\ ParserOnly

NextParse ==
    \/ ParseProgramWake
    \/ StatementListIteration
    \/ ParseProgramSleep
    \/ CallParseExpression

SpecParse == InitParse /\ [][NextParse]_vars

\* The parser is run to its end.
SpecParseLive == SpecParse /\ WF_vars(NextParse)

(***************************************************************************)
(* The lexer (lexer.py).  A source is a sequence of characters, a Lexer    *)
(* is its pos, line and column; the functions return the lexer after them  *)
(* and the token they read, or the LexerError they raise.                  *)
(***************************************************************************)
PositionedToken(type, value, line, column) ==
    [type |-> type, value |-> value, line |-> line, column |-> column]

LexerError(message, line, column) == [message |-> message, line |-> line, column |-> column]

NoToken == [type |-> "<None>"]

NoLexerError == [message |-> None]

KEYWORDS ==
    [identifier \in {"Wake", "Sleep", "Hunt", "Box", "paws", "Purr", "Hiss", "Chase",
                     "Bring", "Meow"} |->
        CASE identifier = "Wake" -> "WAKE"
          [] identifier = "Sleep" -> "SLEEP"
          [] identifier = "Hunt" -> "HUNT"
          [] identifier = "Box" -> "BOX"
          [] identifier = "paws" -> "PAWS"
          [] identifier = "Purr" -> "PURR"
          [] identifier = "Hiss" -> "HISS"
          [] identifier = "Chase" -> "CHASE"
          [] identifier = "Bring" -> "BRING"
          [] identifier = "Meow" -> "MEOW"]

NewLexer == [pos |-> 0, line |-> 1, column |-> 1]

Read(lx, token) == [lx |-> lx, raised |-> FALSE, token |-> token, error |-> NoLexerError]

Fail(lx, error) == [lx |-> lx, raised |-> TRUE, token |-> NoToken, error |-> error]

\* str.isdigit, str.isalpha and str.isalnum on the characters of the sources
isdigit(char) == char \in {"0", "1", "2", "3", "4", "5", "6", "7", "8", "9"}

isalpha(char) == char \in {"a", "b", "n", "t", "x"}

isalnum(char) == isalpha(char) \/ isdigit(char)

current_char(source, lx) ==
    IF lx.pos >= Len(source) THEN None ELSE source[lx.pos + 1]

peek_char(source, lx) ==
    IF lx.pos + 1 >= Len(source) THEN None ELSE source[lx.pos + 2]

\* An advance that keeps counting columns across a newline.
lex_advance_same_line(source, lx) ==
    IF lx.pos >= Len(source) THEN lx
    ELSE [lx EXCEPT !.pos = @ + 1, !.column = @ + 1]

lex_advance(source, lx) ==
    IF lx.pos >= Len(source) THEN lx
    ELSE IF source[lx.pos + 1] = "\n"
    THEN [lx EXCEPT !.pos = @ + 1, !.line = @ + 1, !.column = 1]
    ELSE [lx EXCEPT !.pos = @ + 1, !.column = @ + 1]

RECURSIVE skip_whitespace(_, _)
skip_whitespace(source, lx) ==
    IF current_char(source, lx) \in {" ", "\t", "\n", "\r"}
    THEN skip_whitespace(source, lex_advance(source, lx))
    ELSE lx

RECURSIVE skip_to_end_of_line(_, _)
skip_to_end_of_line(source, lx) ==
    IF current_char(source, lx) # None /\ current_char(source, lx) # "\n"
    THEN skip_to_end_of_line(source, lex_advance(source, lx))
    ELSE lx

skip_single_line_comment(source, lx) ==
    skip_to_end_of_line(source, lex_advance(source, lex_advance(source, lx)))

RECURSIVE skip_to_end_of_comment(_, _)
skip_to_end_of_comment(source, lx) ==
    IF current_char(source, lx) = None
    THEN Fail(lx, LexerError("Unterminated multi-line comment", lx.line, lx.column))
    ELSE IF current_char(source, lx) = "*" /\ peek_char(source, lx) = "/"
    THEN Read(lex_advance(source, lex_advance(source, lx)), NoToken)
    ELSE skip_to_end_of_comment(source, lex_advance(source, lx))

skip_multi_line_comment(source, lx) ==
    skip_to_end_of_comment(source, lex_advance(source, lex_advance(source, lx)))

\* int(num_str): the digits of num_str in base ten
DigitValue(char) ==
    CASE char = "0" -> 0 [] char = "1" -> 1 [] char = "2" -> 2 [] char = "3" -> 3
      [] char = "4" -> 4 [] char = "5" -> 5 [] char = "6" -> 6 [] char = "7" -> 7
      [] char = "8" -> 8 [] char = "9" -> 9

RECURSIVE int(_)
int(num_str) ==
    IF num_str = <<>> THEN 0
    ELSE 10 * int(SubSeq(num_str, 1, Len(num_str) - 1)) + DigitValue(num_str[Len(num_str)])

\* float(num_str): the whole part, and the digits of the fraction without the
\* zeros at their end
RECURSIVE StripZeros(_)
StripZeros(digits) ==
    IF digits # <<>> /\ digits[Len(digits)] = "0"
    THEN StripZeros(SubSeq(digits, 1, Len(digits) - 1))
    ELSE digits

float(num_str) ==
    LET point == CHOOSE i \in DOMAIN num_str : num_str[i] = "."
    IN  [whole |-> int(SubSeq(num_str, 1, point - 1)),
         fraction |-> StripZeros(SubSeq(num_str, point + 1, Len(num_str)))]

RECURSIVE read_number_loop(_, _, _, _)
read_number_loop(source, lx, num_str, is_float) ==
    IF current_char(source, lx) # None
       /\ (isdigit(current_char(source, lx)) \/ current_char(source, lx) = ".")
    THEN IF current_char(source, lx) = "." /\ is_float
         THEN Fail(lx, LexerError("Invalid number format: multiple decimal points",
                                  lx.line, lx.column))
         ELSE read_number_loop(source, lex_advance(source, lx),
                               Append(num_str, current_char(source, lx)),
                               is_float \/ current_char(source, lx) = ".")
    ELSE [lx |-> lx, raised |-> FALSE, num_str |-> num_str, is_float |-> is_float]

read_number(source, lx) ==
    \* start_line, start_column are lx.line, lx.column
    LET r == read_number_loop(source, lx, <<>>, FALSE)
    IN  IF r.raised THEN r
        ELSE IF r.is_float /\ r.num_str[Len(r.num_str)] = "."
        \* the loop stopped at a character that is no digit
        THEN Fail(r.lx, LexerError(
                 "Invalid number format: decimal point must be followed by digits",
                 lx.line, lx.column))
        ELSE IF r.is_float
        THEN Read(r.lx, PositionedToken("FLOAT", float(r.num_str), lx.line, lx.column))
        ELSE Read(r.lx, PositionedToken("INTEGER", int(r.num_str), lx.line, lx.column))

\* The character an escape sequence stands for.
Escape(next_char) ==
    CASE next_char = "n" -> "\n"
      [] next_char = "t" -> "\t"
      [] OTHER -> next_char

\* The while loop of read_string; start is the lexer at the opening quote.
RECURSIVE read_string_loop(_, _, _, _)
read_string_loop(source, start, lx, string_value) ==
    IF current_char(source, lx) # None /\ current_char(source, lx) # "\""
    THEN IF current_char(source, lx) = "\\"
         THEN IF current_char(source, lex_advance(source, lx)) = None
              THEN Fail(lex_advance(source, lx),
                        LexerError("Unterminated string literal", start.line, start.column))
              ELSE read_string_loop(source, start,
                       lex_advance(source, lex_advance(source, lx)),
                       string_value \o Escape(current_char(source, lex_advance(source, lx))))
         ELSE IF current_char(source, lx) = "\n"
         THEN Fail(lx, LexerError("Unterminated string literal (newline in string)",
                                  start.line, start.column))
         ELSE read_string_loop(source, start, lex_advance(source, lx),
                               string_value \o current_char(source, lx))
    ELSE IF current_char(source, lx) # "\""
    THEN Fail(lx, LexerError("Unterminated string literal", start.line, start.column))
    ELSE Read(lex_advance(source, lx),
              PositionedToken("STRING", string_value, start.line, start.column))

read_string(source, lx) == read_string_loop(source, lx, lex_advance(source, lx), "")

RECURSIVE read_identifier_loop(_, _, _)
read_identifier_loop(source, lx, identifier) ==
    IF current_char(source, lx) # None
       /\ (isalnum(current_char(source, lx)) \/ current_char(source, lx) = "_")
    THEN read_identifier_loop(source, lex_advance(source, lx),
                              identifier \o current_char(source, lx))
    ELSE [lx |-> lx, identifier |-> identifier]

read_identifier_or_keyword(source, lx) ==
    LET r == read_identifier_loop(source, lx, "")
    IN  Read(r.lx, PositionedToken(
                 IF r.identifier \in DOMAIN KEYWORDS THEN KEYWORDS[r.identifier]
                 ELSE "IDENTIFIER",
                 r.identifier, lx.line, lx.column))

two_char_tokens ==
    [char \in {"=", "!", "<", ">", "&", "|"} |->
        CASE char = "=" -> [next |-> "=", type |-> "EQUAL"]
          [] char = "!" -> [next |-> "=", type |-> "NOT_EQUAL"]
          [] char = "<" -> [next |-> "=", type |-> "LESS_EQUAL"]
          [] char = ">" -> [next |-> "=", type |-> "GREATER_EQUAL"]
          [] char = "&" -> [next |-> "&", type |-> "AND"]
          [] char = "|" -> [next |-> "|", type |-> "OR"]]

single_char_tokens ==
    [char \in {"+", "-", "*", "/", "%", "<", ">", "!", "(", ")", "{", "}", ",", ";"} |->
        CASE char = "+" -> "PLUS"
          [] char = "-" -> "MINUS"
          [] char = "*" -> "MULTIPLY"
          [] char = "/" -> "DIVIDE"
          [] char = "%" -> "MODULO"
          [] char = "<" -> "LESS"
          [] char = ">" -> "GREATER"
          [] char = "!" -> "NOT"
          [] char = "(" -> "LPAREN"
          [] char = ")" -> "RPAREN"
          [] char = "{" -> "LBRACE"
          [] char = "}" -> "RBRACE"
          [] char = "," -> "COMMA"
          [] char = ";" -> "SEMICOLON"]

\* The operators and delimiters of tokenize
read_operator(source, lx) ==
    LET char == current_char(source, lx)
    IN  IF char \in DOMAIN two_char_tokens /\ peek_char(source, lx) = two_char_tokens[char].next
        THEN Read(lex_advance(source, lex_advance(source, lx)),
                  PositionedToken(two_char_tokens[char].type,
                                  char \o two_char_tokens[char].next, lx.line, lx.column))
        ELSE IF char \in DOMAIN single_char_tokens
        THEN Read(lex_advance(source, lx),
                  PositionedToken(single_char_tokens[char], char, lx.line, lx.column))
        ELSE Fail(lx, LexerError("Unexpected character: '" \o char \o "'", lx.line, lx.column))

\* What one iteration of the loop of tokenize does at the current character.
Branch(source, lx) ==
    LET char == current_char(source, lx)
    IN  IF char \in {" ", "\t", "\n", "\r"} THEN "whitespace"
        ELSE IF char = "/" /\ peek_char(source, lx) = "/" THEN "single_line_comment"
        ELSE IF char = "/" /\ peek_char(source, lx) = "*" THEN "multi_line_comment"
        ELSE IF isdigit(char) THEN "number"
        ELSE IF char = "\"" THEN "string"
        ELSE IF isalpha(char) \/ char = "_" THEN "identifier"
        ELSE "operator"

\* One iteration of the loop of tokenize
tokenize_iteration(source, lx) ==
    CASE Branch(source, lx) = "whitespace" -> Read(skip_whitespace(source, lx), NoToken)
      [] Branch(source, lx) = "single_line_comment" ->
             Read(skip_single_line_comment(source, lx), NoToken)
      [] Branch(source, lx) = "multi_line_comment" -> skip_multi_line_comment(source, lx)
      [] Branch(source, lx) = "number" -> read_number(source, lx)
      [] Branch(source, lx) = "string" -> read_string(source, lx)
      [] Branch(source, lx) = "identifier" -> read_identifier_or_keyword(source, lx)
      [] Branch(source, lx) = "operator" -> read_operator(source, lx)

(***************************************************************************)
(* SpecLex: Lexer(source_code).tokenize() on one source, the loop of       *)
(* tokenize taken one iteration at a step.  source_code is the text, ret   *)
(* the lexer (lx), the tokens appended so far, the LexerError raised, and  *)
(* starts, the pos at which the iteration that appended each token began.  *)
(***************************************************************************)
SourcePieces ==
    {<<"/", "*">>, <<"*", "/">>, <<"/">>, <<"\n">>, <<" ">>, <<"a">>, <<"1">>, <<"\"">>,
     <<"\\">>, <<"=">>, <<".">>}

SourceTexts ==
    {Concat(pieces) : pieces \in UNION {[1..k -> SourcePieces] : k \in 0..MaxSource}}

InitLex ==
    /\ scopes = NewTable.scopes
    /\ current_scope = NewTable.current_scope
    /\ errors = <<>>
    /\ current_function = None
    /\ in_function = FALSE
    /\ frames = <<>>
    /\ node = NoNode
    /\ nstmts = 0
    /\ outcome = "walking"
    /\ source_code \in SourceTexts
    /\ tokens = Unset
    /\ ast = Unset
    /\ tac = Unset
    /\ pc = "tokenize"
    /\ returned = <<>>
    /\ ran = <<>>
    /\ recovered = 0
    /\ recoveries = <<>>
    /\ ret = [op |-> "tokenize", lx |-> NewLexer, tokens |-> <<>>, starts |-> <<>>,
              raised |-> FALSE, error |-> NoLexerError]

LexerOnly ==
    UNCHANGED <<source_code, tokens, ast, tac, returned, ran, recovered, recoveries, semvars>>

\* while self.current_char(): the branch taken, then continue or the LexerError
Iteration(branch) ==
    /\ pc = "tokenize"
    /\ current_char(source_code, ret.lx) # None
    /\ Branch(source_code, ret.lx) = branch
    /\ \E r \in {tokenize_iteration(source_code, ret.lx)} :
        /\ ret' = [ret EXCEPT
                      !.lx = r.lx,
                      !.tokens = IF r.token = NoToken THEN @ ELSE Append(@, r.token),
                      !.starts = IF r.token = NoToken THEN @ ELSE Append(@, ret.lx.pos),
                      !.raised = r.raised,
                      !.error = r.error]
        /\ pc' = IF r.raised THEN "done" ELSE "tokenize"
    /\ LexerOnly

SkipWhitespace == Iteration("whitespace")

SkipSingleLineComment == Iteration("single_line_comment")

SkipMultiLineComment == Iteration("multi_line_comment")

ReadNumber == Iteration("number")

ReadString == Iteration("string")

ReadIdentifierOrKeyword == Iteration("identifier")

ReadOperator == Iteration("operator")

\* A tokenize that returns the tokens as they are.
TokenizeReturnBare ==
    /\ pc = "tokenize"
    /\ current_char(source_code, ret.lx) = None
    /\ pc' = "done"
    /\ UNCHANGED ret
    /\ LexerOnly

\* self.tokens.append(Token(TokenType.EOF, None, self.line, self.column)); return
TokenizeReturn ==
    /\ pc = "tokenize"
    /\ current_char(source_code, ret.lx) = None
    /\ ret' = [ret EXCEPT
                  !.tokens = Append(@, PositionedToken("EOF", None, ret.lx.line,
                                                       ret.lx.column)),
                  !.starts = Append(@, ret.lx.pos)]
    /\ pc' = "done"
    /\ LexerOnly

NextLex ==
    \/ SkipWhitespace
    \/ SkipSingleLineComment
    \/ SkipMultiLineComment
    \/ ReadNumber
    \/ ReadString
    \/ ReadIdentifierOrKeyword
    \/ ReadOperator
    \/ TokenizeReturn

SpecLex == InitLex /\ [][NextLex]_vars

(***************************************************************************)
(* Properties.  In SpecSem a step taken from a state with node # NoNode is *)
(* the visit of node by its handler: the unprimed variables are the state  *)
(* the handler starts in, the primed ones the state it leaves.             *)
(***************************************************************************)
Range(seq) == {seq[i] : i \in DOMAIN seq}

Count(seq, x) == Cardinality({i \in DOMAIN seq : seq[i] = x})

\* The diagnostics the step appended.
NewErrors == SubSeq(errors', Len(errors) + 1, Len(errors'))

\* The frames (TLA+ indices) that hold name, and the innermost of them.
Holders(name) == {i \in 1..Len(scopes) : name \in DOMAIN scopes[i]}

Innermost(name) == CHOOSE i \in Holders(name) : \A j \in Holders(name) : j <= i

\* C1: a source in whose statement list the parser recovered from a ParserError
\* does not compile: parse returns no AST, so self.ast stays unset, and compile
\* returns False.
ParseErrorFailsCompile ==
    (pc = "done" /\ recovered > 0) => (ast = Unset /\ returned = Some(FALSE))

\* Whether phase i of PhaseOrder has run and succeeded.
PhaseSucceeded(i) ==
    /\ Len(ran) >= i
    /\ CASE i = 1 -> tokens # Unset
         [] i = 2 -> ast # Unset
         [] i = 3 -> errors = <<>>
         [] i = 4 -> tac # Unset

\* C2: compile calls the phases in the fixed order, each at most once and only
\* after every earlier phase has succeeded; when a phase fails compile returns
\* False with that phase the last one called, and the artefacts of the failing
\* and the later phases are unset (tac is unset whenever semantic analysis
\* fails); compile returns True only after all four have succeeded.
PhasesInOrder ==
    /\ ran = SubSeq(PhaseOrder, 1, Len(ran))
    /\ \A i \in 1..Len(ran) : \A j \in 1..(i - 1) : PhaseSucceeded(j)
    /\ pc # "done" => returned = Unset /\ pc = PhaseOrder[Len(ran) + 1]
    /\ pc = "done" => returned # Unset
    /\ returned = Some(FALSE) => ran # <<>> /\ ~PhaseSucceeded(Len(ran))
    /\ returned = Some(TRUE) => \A i \in 1..4 : PhaseSucceeded(i)
    /\ Len(ran) < 1 \/ ~source_code.lexes => tokens = Unset
    /\ ~PhaseSucceeded(1) => ast = Unset
    /\ ~PhaseSucceeded(2) => errors = <<>> /\ Len(scopes) = 1 /\ scopes[1] = EmptyFrame
    /\ ~PhaseSucceeded(3) => tac = Unset
    /\ errors # <<>> => tac = Unset

\* compile has returned False from a failed semantic analysis of a program that
\* declares a variable, leaving tac unset.
PhasesInOrderWitness ==
    /\ returned = Some(FALSE)
    /\ ran = SubSeq(PhaseOrder, 1, 3)
    /\ errors # <<>>
    /\ ast # Unset
    /\ tac = Unset
    /\ scopes[1] # EmptyFrame

\* C3: scope balance.  Every frame above the program scope belongs to a block
\* handler that is still walking its block, and once visit_program has finished
\* (with or without diagnostics) the stack has depth 1 and current_scope is 0.
ScopeBalance ==
    /\ Len(scopes) = Len(frames) + 1
    /\ outcome # "walking" => Len(scopes) = 1 /\ current_scope = 0

\* A walk with a diagnostic has finished, having entered a function body and
\* left a function in the program scope.
ScopeBalanceWitness ==
    /\ outcome = "SemanticError"
    /\ nstmts >= 2
    /\ \E n \in DOMAIN scopes[1] : scopes[1][n].is_function

\* C4: declare raises SemanticError iff the top frame already holds the name (a
\* name held by outer frames only is accepted), and a successful declare
\* inserts the symbol into the top frame and changes nothing else.
DeclareTopFrameOnly ==
    [][ret'.op = "declare" =>
        LET top == Len(scopes)
            symbol == ret'.symbol
        IN  /\ ret'.raised <=> symbol.name \in DOMAIN scopes[top]
            /\ ret'.raised => scopes' = scopes
            /\ ~ret'.raised =>
                /\ Len(scopes') = Len(scopes)
                /\ \A i \in 1..(top - 1) : scopes'[i] = scopes[i]
                /\ DOMAIN scopes'[top] = DOMAIN scopes[top] \cup {symbol.name}
                /\ scopes'[top][symbol.name] = symbol
                /\ \A n \in DOMAIN scopes[top] : scopes'[top][n] = scopes[top][n]]_vars

\* A declare has succeeded for a name that the program scope holds too.
DeclareShadowWitness ==
    /\ ret.op = "declare"
    /\ ~ret.raised
    /\ Len(scopes) >= 2
    /\ ret.symbol.name \in DOMAIN scopes[1]
    /\ ret.symbol.name \in DOMAIN scopes[Len(scopes)]

\* C6: lookup returns the symbol of the innermost frame that holds the name,
\* and None exactly when no frame holds it.
LookupInnermost ==
    ret.op = "lookup" =>
        IF Holders(ret.name) = {}
        THEN ret.value = NoSymbol
        ELSE /\ ret.value # NoSymbol
             /\ ret.value = scopes[Innermost(ret.name)][ret.name]

\* A lookup has returned the inner of two symbols of the same name, the outer
\* one held by the program scope, from below a frame that does not hold it.
LookupInnermostWitness ==
    /\ ret.op = "lookup"
    /\ ret.value # NoSymbol
    /\ 1 \in Holders(ret.name)
    /\ Innermost(ret.name) > 1
    /\ Innermost(ret.name) < Len(scopes)
    /\ ret.value # scopes[1][ret.name]

\* The identifier occurrences of an expression.
RECURSIVE Occurrences(_, _)
RECURSIVE OccurrencesIn(_, _)
Occurrences(e, name) ==
    IF e.kind = "Identifier" THEN (IF e.name = name THEN 1 ELSE 0)
    ELSE IF e.kind = "UnaryOp" THEN Occurrences(e.operand, name)
    ELSE IF e.kind = "BinaryOp" THEN Occurrences(e.left, name) + Occurrences(e.right, name)
    ELSE IF e.kind = "FunctionCall" THEN OccurrencesIn(e.arguments, name)
    ELSE 0
OccurrencesIn(es, name) ==
    IF es = <<>> THEN 0 ELSE Occurrences(Head(es), name) + OccurrencesIn(Tail(es), name)

\* The expression of a statement node.
ExpressionOf(n) ==
    IF n.kind \in {"VarDeclaration", "Assignment", "ReturnStatement", "PrintStatement"}
    THEN n.value
    ELSE IF n.kind \in {"IfStatement", "WhileLoop"} THEN n.condition
    ELSE n.call

HasExpression(n) ==
    n.kind \in {"VarDeclaration", "Assignment", "ReturnStatement", "PrintStatement",
                "IfStatement", "WhileLoop", "FunctionCallStatement"}

UndeclaredVariable(name) == SemanticError("Undeclared variable", name)

\* C5: every identifier used in the expression of a statement yields an
\* 'Undeclared variable' diagnostic iff no frame on the scope stack holds its
\* name when the statement is visited.  (An Assign adds the same diagnostic
\* for its target, which is counted apart.)
UndeclaredIffNoFrame ==
    [][HasExpression(node) =>
        \A name \in Names :
            LET target == IF /\ node.kind = "Assignment"
                             /\ node.identifier = name
                             /\ Holders(name) = {}
                          THEN 1 ELSE 0
                used == IF Holders(name) = {}
                        THEN Occurrences(ExpressionOf(node), name) ELSE 0
            IN  Count(NewErrors, UndeclaredVariable(name)) = target + used]_vars

ReturnOutside == SemanticError("Return statement outside of function", None)

\* C7: a Return adds 'Return statement outside of function' iff no FuncDef body
\* encloses it: no activation of visit_function_def is walking a block around it.
ReturnOutsideIffNotEnclosed ==
    [][node.kind = "ReturnStatement" =>
        /\ Count(NewErrors, ReturnOutside) = (IF EnclosingFunc(frames) = 0 THEN 1 ELSE 0)
        /\ \A i \in 1..Len(errors) : errors'[i] = errors[i]]_vars

\* The walk is back at program level after a function whose Return was accepted
\* (it set the return type), and a Return at program level was diagnosed.
ReturnOutsideWitness ==
    /\ frames = <<>>
    /\ ReturnOutside \in Range(errors)
    /\ \E n \in DOMAIN scopes[1] :
        scopes[1][n].is_function /\ scopes[1][n].data_type # UNKNOWN

\* The Symbol of the innermost FuncDef that encloses the statement being
\* visited: the one its visit_function_def declared, in the frame below the
\* function's own.
EnclosingSymbol(ss, fs) == ss[EnclosingFunc(fs)][fs[EnclosingFunc(fs)].name]

\* C8: the first Return met in a function body sets the recorded return type
\* of the enclosing function to the type of its expression; a later Return
\* adds 'Inconsistent return type' iff its type is neither equal to the
\* recorded type nor both numeric.
ReturnTypeInference ==
    [][(node.kind = "ReturnStatement" /\ EnclosingFunc(frames) # 0) =>
        LET F == EnclosingSymbol(scopes, frames)
            V == visit_expression(node.value, TheTable).type
            first == ~frames[EnclosingFunc(frames)].returned
            added == \E i \in DOMAIN NewErrors :
                        NewErrors[i].kind = "Inconsistent return type"
        IN  /\ first => F.data_type = UNKNOWN
            /\ first => EnclosingSymbol(scopes', frames).data_type = V
            /\ ~first => (added <=> ~(F.data_type = V
                                      \/ (F.data_type \in Numeric /\ V \in Numeric)))]_vars

TypeMismatch(name) == SemanticError("Type mismatch", name)

\* The case C9 is about: an Assign to a declared variable that is no function.
AssignToVariable ==
    /\ node.kind = "Assignment"
    /\ Holders(node.identifier) # {}
    /\ ~scopes[Innermost(node.identifier)][node.identifier].is_function

\* C9 as stated: no 'Type mismatch' iff T = V, or both numeric, or T = Unknown.
AssignCompatibleAsStated ==
    [][AssignToVariable =>
        LET T == scopes[Innermost(node.identifier)][node.identifier].data_type
            V == visit_expression(node.value, TheTable).type
        IN  Count(NewErrors, TypeMismatch(node.identifier)) = 0
                <=> (T = V \/ (T \in Numeric /\ V \in Numeric) \/ T = UNKNOWN)]_vars

\* C9 as amended: no 'Type mismatch' iff T = V, or both numeric, or T = Unknown,
\* or V = Unknown; in every other case exactly one is added.
AssignCompatible ==
    [][AssignToVariable =>
        LET T == scopes[Innermost(node.identifier)][node.identifier].data_type
            V == visit_expression(node.value, TheTable).type
            ok == T = V \/ (T \in Numeric /\ V \in Numeric) \/ T = UNKNOWN \/ V = UNKNOWN
        IN  Count(NewErrors, TypeMismatch(node.identifier)) = (IF ok THEN 0 ELSE 1)]_vars

\* An Assign has added a 'Type mismatch', and the variable kept its type.
AssignCompatibleWitness ==
    \E n \in Names :
        /\ TypeMismatch(n) \in Range(errors)
        /\ Holders(n) # {}
        /\ ~scopes[Innermost(n)][n].is_function

\* The Call nodes that visit_function_call is applied to whatever the state: the
\* call of a call statement and a call that is the value of a Box.
IsCallVisit(n) ==
    \/ n.kind = "FunctionCallStatement"
    \/ n.kind = "VarDeclaration" /\ n.value.kind = "FunctionCall"

\* C10: visit_function_call adds an error when the callee resolves to no
\* symbol, when it resolves to a symbol that is no function, and when the
\* argument count differs from the parameter count (and no count error
\* otherwise); the call of a declared function has the function's recorded
\* return type at that moment, any other call has Unknown.
CallChecks ==
    [][IsCallVisit(node) =>
        LET call == ExpressionOf(node)
            resolved == Holders(call.name) # {}
            symbol == scopes[Innermost(call.name)][call.name]
            top == Len(scopes)
        IN  /\ ~resolved =>
                NewErrors # <<>> /\ NewErrors[1] = SemanticError("Undeclared function", call.name)
            /\ (resolved /\ ~symbol.is_function) =>
                NewErrors # <<>> /\ NewErrors[1] = SemanticError("is not a function", call.name)
            /\ (resolved /\ symbol.is_function) =>
                Count(NewErrors, SemanticError("expects arguments", call.name))
                    = (IF Len(call.arguments) # Len(symbol.parameters) THEN 1 ELSE 0)
            /\ (node.kind = "VarDeclaration" /\ node.identifier \notin DOMAIN scopes[top]) =>
                scopes'[top][node.identifier].data_type =
                    (IF resolved /\ symbol.is_function THEN symbol.data_type ELSE UNKNOWN)]_vars

\* A call with the wrong number of arguments was diagnosed, and a Box holds the
\* result of the call of a function whose return type was inferred.
CallChecksWitness ==
    \E n \in Names :
        /\ SemanticError("expects arguments", n) \in Range(errors)
        /\ n \in DOMAIN scopes[1]
        /\ scopes[1][n].is_function
        /\ scopes[1][n].data_type # UNKNOWN
        /\ \E v \in DOMAIN scopes[1] :
            /\ ~scopes[1][v].is_function
            /\ scopes[1][v].data_type = scopes[1][n].data_type

(***************************************************************************)
(* C11 (as stated): for every Binary node with operator '/', visit_binary_op *)
(* returns Float (WHISKERS) regardless of the types of its two operands.   *)
(***************************************************************************)
IsDivision == ret.op = "visit_binary_op" /\ ret.operator = "/"

DivisionAlwaysFloat == IsDivision => ret.type = WHISKERS

(***************************************************************************)
(* C11 (amended): for every Binary node with operator '/', visit_binary_op *)
(* returns Float (WHISKERS) when both operands are numeric (Int or Float,  *)
(* also Int / Int), and Unknown when an operand is a String or Unknown; it *)
(* adds the "cannot apply operator" diagnostic exactly when an operand is  *)
(* not numeric and neither is Unknown.                                     *)
(***************************************************************************)
DivisionFloatForNumeric ==
    IsDivision =>
        /\ ret.type = IF ret.left_type \in Numeric /\ ret.right_type \in Numeric
                      THEN WHISKERS ELSE UNKNOWN
        /\ SemanticError("Type error: cannot apply operator", "/") \in Range(ret.errs) <=>
               /\ ~(ret.left_type \in Numeric /\ ret.right_type \in Numeric)
               /\ ret.left_type # UNKNOWN
               /\ ret.right_type # UNKNOWN

\* A division of an Int by an Int was typed Float.
DivisionFloatForNumericWitness ==
    /\ IsDivision
    /\ ret.left_type = TREATS
    /\ ret.right_type = TREATS
    /\ ret.type = WHISKERS

(***************************************************************************)
(* C12: a statement with k independent semantic errors adds exactly k      *)
(* diagnostics.  For an Assign to a name no frame holds, k is 1 (the       *)
(* undeclared target) plus the diagnostics of its right-hand side, e.g. 2  *)
(* when the right-hand side is another undeclared name.                    *)
(***************************************************************************)
ErrorCountIndependent ==
    [][(node.kind = "Assignment" /\ Holders(node.identifier) = {}) =>
        Len(NewErrors) = 1 + Len(visit_expression(node.value, TheTable).errs)]_vars

(***************************************************************************)
(* C13: diagnostics never stop the walk and decide the outcome.  analyze   *)
(* visits every statement of the program: the visit of a FuncDef whose     *)
(* body holds statements goes on into that body, whatever was diagnosed;   *)
(* and when the walk ends analyze raises a SemanticError iff the list of   *)
(* diagnostics is non-empty.                                               *)
(***************************************************************************)
WalkNeverStopped ==
    [][/\ (node.kind = "FunctionDef" /\ node.body = "stmts") =>
            /\ Len(frames') = Len(frames) + 1
            /\ frames'[Len(frames')].kind = "func"
       /\ (outcome = "walking" /\ outcome' # "walking") =>
            (outcome' = "SemanticError" <=> errors # <<>>)]_vars

(***************************************************************************)
(* C14: exit_scope pops the top frame, and called while only the program   *)
(* scope remains (depth 1) it signals a fatal internal error instead of    *)
(* returning normally.                                                     *)
(***************************************************************************)
ExitScopePanicsAtProgramScope ==
    ret.op = "exit_scope" =>
        IF ret.depth = 1
        THEN ret.raised
        ELSE ~ret.raised /\ Len(scopes) = ret.depth - 1

(***************************************************************************)
(* C15: under any sequence of enter_scope, exit_scope, declare and lookup  *)
(* calls, also with more exit_scope than enter_scope calls, the frame      *)
(* stack has depth at least 1 and frame 0 (the program scope) is never     *)
(* popped: every call leaves it in place with the symbols it held.         *)
(***************************************************************************)
ProgramScopeKept ==
    [][/\ Len(scopes') >= 1
       /\ current_scope' = Len(scopes') - 1
       /\ \A name \in DOMAIN scopes[1] :
            name \in DOMAIN scopes'[1] /\ scopes'[1][name] = scopes[1][name]]_vars

\* exit_scope was called at depth 1 on a program scope that holds a symbol, and
\* the stack still has that frame.
ProgramScopeKeptWitness ==
    /\ ret.op = "exit_scope"
    /\ ret.depth = 1
    /\ Len(scopes) = 1
    /\ DOMAIN scopes[1] # {}

(***************************************************************************)
(* The instruction list generate returned, as the properties read it.      *)
(***************************************************************************)
\* The names of the form tN that occur in code (N is less than the number of
\* instructions for every name new_temp made up).
TempNames(code) ==
    {t \in {"t" \o ToString(k) : k \in 0..Len(code)} :
        \E i \in DOMAIN code : t \in {code[i].result, code[i].arg1, code[i].arg2}}

Writers(code, name) == {i \in DOMAIN code : code[i].result = name}

Users(code, name) == {i \in DOMAIN code : name \in {code[i].arg1, code[i].arg2}}

(***************************************************************************)
(* C16: for every valid program, each temporary name tN that occurs in the *)
(* generated TAC is the result of exactly one instruction, and that        *)
(* instruction precedes every instruction that uses tN as an argument,     *)
(* also when the program declares or assigns variables named tN.           *)
(***************************************************************************)
TempWrittenOnceBeforeUse ==
    tac # Unset =>
        \A t \in TempNames(tac[1]) :
            /\ Cardinality(Writers(tac[1], t)) = 1
            /\ \A w \in Writers(tac[1], t), u \in Users(tac[1], t) : w < u

\* The instructions of code with one of the operations ops.
Instructions(code, ops) == {i \in DOMAIN code : code[i].operation \in ops}

Targets(code) == {code[i].result : i \in Instructions(code, {"goto", "if_false"})}

(***************************************************************************)
(* C17: for every valid program, each label name is the destination of     *)
(* exactly one label instruction, every target of a goto or if_false is    *)
(* defined by a label instruction, and there are as many label             *)
(* instructions as distinct names among the targets of goto and if_false.  *)
(***************************************************************************)
LabelsDefinedOnce ==
    tac # Unset =>
        /\ \A i, j \in Instructions(tac[1], {"label"}) :
                tac[1][i].result = tac[1][j].result => i = j
        /\ \A l \in Targets(tac[1]) :
                \E i \in Instructions(tac[1], {"label"}) : tac[1][i].result = l
        /\ Cardinality(Instructions(tac[1], {"label"})) = Cardinality(Targets(tac[1]))

\* A program was generated with four labels, a goto and an if_false among them.
LabelsDefinedOnceWitness ==
    /\ tac # Unset
    /\ Cardinality(Instructions(tac[1], {"label"})) >= 4
    /\ Instructions(tac[1], {"goto"}) # {}
    /\ Instructions(tac[1], {"if_false"}) # {}

\* A generator with the counters of g and no instruction yet: what it emits is
\* the code of what it visits.
Fresh(g) == [g EXCEPT !.instructions = <<>>]

\* The generator when generate reaches statement i of the program, and the
\* instructions tac holds for that statement.
Reaching(i) == gen_visit_statements(NewGenerator, SubSeq(ast[1].statements, 1, i - 1))

Emitted(i) ==
    SubSeq(tac[1], Len(Reaching(i).instructions) + 1, Len(Reaching(i + 1).instructions))

\* The label names of code, and two labels that new_label hands out next: names
\* of the form LN, different, that no instruction before has.
LabelNames(code) == {code[i].result : i \in Instructions(code, {"label"})}

Allocated(g, la, lb) ==
    /\ la # lb
    /\ {la, lb} \subseteq {"L" \o ToString(k) : k \in 0..(g.label_counter + 1)}
    /\ \A i \in DOMAIN g.instructions : g.instructions[i].result \notin {la, lb}

\* The code of a block generated next to two allocated labels.
BlockCode(g, stmts) ==
    gen_visit_statements(Fresh([g EXCEPT !.label_counter = @ + 2]), stmts)

(***************************************************************************)
(* C18: for every If node that has an else-block (also one with zero       *)
(* statements, Hiss { }) the generator allocates two labels L_else and     *)
(* L_end and emits, in this order: the condition's code, if_false C goto   *)
(* L_else, the then-block's code, goto L_end, label L_else, the            *)
(* else-block's code, label L_end.                                         *)
(***************************************************************************)
IfElseLayoutAt(i) ==
    LET n == ast[1].statements[i]
        g == Reaching(i)
        c == gen_visit_expression(Fresh(g), n.condition)
        t == BlockCode(c.g, n.then_block)
        e == gen_visit_statements(Fresh(t), n.else_block[1])
    IN  \E l_else, l_end \in LabelNames(tac[1]) :
            /\ Allocated(g, l_else, l_end)
            /\ Emitted(i) =
                    c.g.instructions
                    \o <<TACInstruction("if_false", c.temp, None, l_else)>>
                    \o t.instructions
                    \o <<TACInstruction("goto", None, None, l_end),
                         TACInstruction("label", None, None, l_else)>>
                    \o e.instructions
                    \o <<TACInstruction("label", None, None, l_end)>>

IfElseLayout ==
    tac # Unset =>
        \A i \in DOMAIN ast[1].statements :
            (/\ ast[1].statements[i].kind = "IfStatement"
             /\ ElseKind(ast[1].statements[i].else_block) # "None") => IfElseLayoutAt(i)

(***************************************************************************)
(* C19: for every While node the generator allocates L_start and L_end and *)
(* emits, in this order: label L_start, the condition's code, if_false C   *)
(* goto L_end, the body's code, goto L_start, label L_end; the labels of   *)
(* the statements nested in the body are distinct from L_start and L_end.  *)
(***************************************************************************)
WhileLayoutAt(i) ==
    LET n == ast[1].statements[i]
        g == Reaching(i)
        c == gen_visit_expression(Fresh(g), n.condition)
        b == BlockCode(c.g, n.body)
    IN  \E l_start, l_end \in LabelNames(tac[1]) :
            /\ Allocated(g, l_start, l_end)
            /\ Emitted(i) =
                    <<TACInstruction("label", None, None, l_start)>>
                    \o c.g.instructions
                    \o <<TACInstruction("if_false", c.temp, None, l_end)>>
                    \o b.instructions
                    \o <<TACInstruction("goto", None, None, l_start),
                         TACInstruction("label", None, None, l_end)>>
            /\ LabelNames(b.instructions) \cap {l_start, l_end} = {}

WhileLayout ==
    tac # Unset =>
        \A i \in DOMAIN ast[1].statements :
            ast[1].statements[i].kind = "WhileLoop" => WhileLayoutAt(i)

\* A Chase was generated after a statement with a label of its own, and its
\* body holds a Chase or a Purr with labels of its own.
WhileLayoutWitness ==
    /\ tac # Unset
    /\ Len(ast[1].statements) = 2
    /\ ast[1].statements[1].kind \in {"WhileLoop", "IfStatement"}
    /\ ast[1].statements[2].kind = "WhileLoop"
    /\ ast[1].statements[2].body # <<>>
    /\ ast[1].statements[2].body[1].kind \in {"WhileLoop", "IfStatement"}
    /\ WhileLayoutAt(2)

(***************************************************************************)
(* C20: panic-mode recovery advances only over tokens outside the          *)
(* synchronization set {Box, Hunt, Purr, Chase, Bring, Meow, '}', Sleep,   *)
(* end-of-input} and stops at the first token in that set: the position    *)
(* never moves past a Sleep or the end-of-input token during recovery.     *)
(***************************************************************************)
SynchronizationSet ==
    {"BOX", "HUNT", "PURR", "CHASE", "BRING", "MEOW", "RBRACE", "SLEEP", "EOF"}

RecoveryStopsAtSync ==
    \A k \in DOMAIN recoveries :
        /\ recoveries[k].from <= recoveries[k].to
        /\ tokens[1][recoveries[k].to + 1].type \in SynchronizationSet
        /\ \A i \in recoveries[k].from..(recoveries[k].to - 1) :
                tokens[1][i + 1].type \notin SynchronizationSet

\* A recovery skipped at least two tokens and stopped at a Sleep that is not the
\* last token before the end of input.
RecoveryStopsAtSyncWitness ==
    \E k \in DOMAIN recoveries :
        /\ recoveries[k].to >= recoveries[k].from + 2
        /\ tokens[1][recoveries[k].to + 1].type = "SLEEP"
        /\ recoveries[k].to + 3 <= Len(tokens[1])

(***************************************************************************)
(* C21: parse returns a ProgramNode only if the first token is Wake and    *)
(* the top-level statement list is followed by Sleep and then immediately  *)
(* by end-of-input; for every other token list (missing Wake, missing      *)
(* Sleep, tokens after Sleep, an unmatched '}' at top level) a ParserError *)
(* comes out of parse; the empty program Wake Sleep is accepted with zero  *)
(* statements.                                                             *)
(***************************************************************************)
TypesOf(toks) == [i \in DOMAIN toks |-> toks[i].type]

Bracketed(types) ==
    /\ Len(types) >= 3
    /\ types[1] = "WAKE"
    /\ types[Len(types) - 1] = "SLEEP"
    /\ types[Len(types)] = "EOF"
    /\ \A i \in 1..(Len(types) - 2) : types[i] # "SLEEP"

\* A '}' that no '{' before it opens.
UnmatchedRBrace(types) ==
    \E i \in DOMAIN types :
        /\ types[i] = "RBRACE"
        /\ Cardinality({j \in 1..i : types[j] = "RBRACE"})
             > Cardinality({j \in 1..i : types[j] = "LBRACE"})

ParseBracketed ==
    (pc = "done" /\ ret.op = "parse") =>
        /\ ret.raised <=> ast = Unset
        /\ ~ret.raised =>
              /\ Bracketed(TypesOf(tokens[1]))
              /\ ret.p.pos = Len(tokens[1]) - 1
              /\ ast = Some(ProgramNode(ret.statements))
        /\ (~Bracketed(TypesOf(tokens[1])) \/ UnmatchedRBrace(TypesOf(tokens[1]))) =>
              ret.raised
        /\ TypesOf(tokens[1]) = <<"WAKE", "SLEEP", "EOF">> =>
              ast = Some(ProgramNode(<<>>))

\* parse returned a program that holds a loop; and, in another run, a
\* ParserError came out for a list with a token after its Sleep.
ParseBracketedWitness ==
    /\ pc = "done"
    /\ ret.op = "parse"
    /\ ~ret.raised
    /\ ret.p.recovered > 0
    /\ \E i \in DOMAIN ret.statements : ret.statements[i].kind = "WhileLoop"

(***************************************************************************)
(* C22: parse_expression groups operators by eight precedence levels,      *)
(* from loosest to tightest ||, &&, == !=, < > <= >=, + -, * / %, unary    *)
(* ! -, primary; binary operators of one level group left to right and     *)
(* the unary operators right to left.                                      *)
(***************************************************************************)
Precedence(type) ==
    CASE type = "OR" -> 1
      [] type = "AND" -> 2
      [] type \in {"EQUAL", "NOT_EQUAL"} -> 3
      [] type \in {"LESS", "GREATER", "LESS_EQUAL", "GREATER_EQUAL"} -> 4
      [] type \in {"PLUS", "MINUS"} -> 5
      [] type \in {"MULTIPLY", "DIVIDE", "MODULO"} -> 6
      [] OTHER -> 0

Depth(toks, i) ==
    Cardinality({j \in 1..(i - 1) : toks[j].type = "LPAREN"})
    - Cardinality({j \in 1..(i - 1) : toks[j].type = "RPAREN"})

\* The binary operators of toks outside its parentheses: an operator token
\* that follows an operand.
BinaryAt(toks) ==
    {i \in 2..Len(toks) :
        /\ Precedence(toks[i].type) > 0
        /\ toks[i - 1].type \in {"IDENTIFIER", "RPAREN"}
        /\ Depth(toks, i) = 0}

\* The tree the precedence table gives to toks: split at the last of the
\* loosest binary operators, else peel the first unary operator, else open
\* the parentheses.
SplitPoint(toks) ==
    CHOOSE i \in BinaryAt(toks) :
        \A j \in BinaryAt(toks) :
            \/ Precedence(toks[j].type) > Precedence(toks[i].type)
            \/ (Precedence(toks[j].type) = Precedence(toks[i].type) /\ j <= i)

RECURSIVE Grouping(_)
Grouping(toks) ==
    IF BinaryAt(toks) # {}
    THEN BinaryOpNode(toks[SplitPoint(toks)].value,
                      Grouping(SubSeq(toks, 1, SplitPoint(toks) - 1)),
                      Grouping(SubSeq(toks, SplitPoint(toks) + 1, Len(toks))))
    ELSE IF toks[1].type \in {"NOT", "MINUS"}
    THEN UnaryOpNode(toks[1].value, Grouping(Tail(toks)))
    ELSE IF toks[1].type = "LPAREN"
    THEN Grouping(SubSeq(toks, 2, Len(toks) - 1))
    ELSE IdentifierNode(toks[1].value)

PrecedenceGrouping ==
    (pc = "done" /\ ret.op = "parse_expression"
        /\ SubSeq(tokens[1], 1, Len(tokens[1]) - 1) \in ExpressionTokenLists) =>
        /\ ~ret.raised
        /\ ret.p.pos = Len(tokens[1]) - 1
        /\ ret.node = Grouping(SubSeq(tokens[1], 1, Len(tokens[1]) - 1))

\* parse_expression returned a - b - -!c, grouped as (a - b) - (-(!c)).
PrecedenceGroupingWitness ==
    /\ pc = "done"
    /\ ret.op = "parse_expression"
    /\ ~ret.raised
    /\ ret.node.kind = "BinaryOp"
    /\ ret.node.operator = "-"
    /\ ret.node.left.kind = "BinaryOp"
    /\ ret.node.left.operator = "-"
    /\ ret.node.right.kind = "UnaryOp"
    /\ ret.node.right.operator = "-"
    /\ ret.node.right.operand.kind = "UnaryOp"
    /\ ret.node.right.operand.operator = "!"

(***************************************************************************)
(* C27: parse terminates on every finite token list that ends in EOF: each *)
(* iteration of the loop of parse_statement_list consumes at least one     *)
(* token or the loop is left, also when the ParserError is raised while    *)
(* the current token is already a synchronization token and the recovery   *)
(* advances over nothing.                                                  *)
(***************************************************************************)
IterationConsumes == [][StatementListIteration => ret'.p.pos > ret.p.pos]_vars

ParseTerminates == IterationConsumes /\ <>(pc = "done")

\* parse came to its end after a recovery that advanced over nothing.
ParseTerminatesWitness ==
    /\ pc = "done"
    /\ ret.op = "parse"
    /\ \E i \in DOMAIN ret.p.recoveries :
           /\ ret.p.recoveries[i].from = ret.p.recoveries[i].to
           /\ tokens[1][ret.p.recoveries[i].to + 1].type \in sync_tokens

(***************************************************************************)
(* C23: whenever tokenize returns, the sequence returned holds exactly one *)
(* EOF token and it is its last element, for every source text (the empty  *)
(* text and texts of whitespace and comments only included).               *)
(***************************************************************************)
SingleEOFLast ==
    (pc = "done" /\ ret.op = "tokenize" /\ ~ret.raised) =>
        /\ ret.tokens # <<>>
        /\ \A i \in DOMAIN ret.tokens : ret.tokens[i].type = "EOF" <=> i = Len(ret.tokens)

\* tokenize returned the EOF token alone for a text of a comment and whitespace.
SingleEOFLastWitness ==
    /\ pc = "done"
    /\ ret.op = "tokenize"
    /\ ~ret.raised
    /\ Len(source_code) >= 5
    /\ \E i \in DOMAIN source_code : source_code[i] = "*"
    /\ \E i \in DOMAIN source_code : source_code[i] = "a"
    /\ source_code[Len(source_code)] = "\n"
    /\ Len(ret.tokens) = 1

(***************************************************************************)
(* C24: every token emitted by tokenize carries the 1-based line and       *)
(* column of the first character of its lexeme: the line counter goes up   *)
(* by one at each newline consumed (those inside block comments too), the  *)
(* column counter restarts at 1 after a newline and goes up by one at      *)
(* every other character.                                                  *)
(***************************************************************************)
\* The line and the column of the character after the first k of a text.
LineAt(source, k) == 1 + Cardinality({j \in 1..k : source[j] = "\n"})

ColumnAt(source, k) ==
    LET newlines == {j \in 1..k : source[j] = "\n"}
    IN  IF newlines = {} THEN k + 1
        ELSE k + 1 - (CHOOSE j \in newlines : \A n \in newlines : n <= j)

\* The text begins, after its first k characters, with a lexeme of the token.
LexemeAt(source, k, token) ==
    CASE token.type = "EOF" -> k = Len(source)
      [] token.type = "IDENTIFIER" -> k < Len(source) /\ isalpha(source[k + 1])
      [] token.type \in {"INTEGER", "FLOAT"} -> k < Len(source) /\ isdigit(source[k + 1])
      [] token.type = "STRING" -> k < Len(source) /\ source[k + 1] = "\""
      [] token.type \in {"EQUAL", "NOT_EQUAL", "LESS_EQUAL", "GREATER_EQUAL", "AND", "OR"} ->
             k + 1 < Len(source) /\ token.value = source[k + 1] \o source[k + 2]
      [] OTHER -> k < Len(source) /\ token.value = source[k + 1]

TokenPositions ==
    ret.op = "tokenize" =>
        /\ ret.lx.line = LineAt(source_code, ret.lx.pos)
        /\ ret.lx.column = ColumnAt(source_code, ret.lx.pos)
        /\ \A i \in DOMAIN ret.tokens :
               /\ LexemeAt(source_code, ret.starts[i], ret.tokens[i])
               /\ ret.tokens[i].line = LineAt(source_code, ret.starts[i])
               /\ ret.tokens[i].column = ColumnAt(source_code, ret.starts[i])
               /\ i > 1 => ret.starts[i - 1] < ret.starts[i]

\* A name on line 2, column 3, behind a block comment that holds a newline.
TokenPositionsWitness ==
    /\ pc = "done"
    /\ ret.op = "tokenize"
    /\ ~ret.raised
    /\ source_code = <<"/", "*", "\n", "*", "/", "a", "/">>
    /\ ret.tokens[1] = PositionedToken("IDENTIFIER", "a", 2, 3)
    /\ ret.tokens[2] = PositionedToken("DIVIDE", "/", 2, 4)
    /\ ret.tokens[3] = PositionedToken("EOF", None, 2, 5)

(***************************************************************************)
(* C25: tokenize raises a LexerError for every source in which a string    *)
(* literal holds a raw newline before its closing quote (also when the     *)
(* newline directly follows a backslash) or in which the end of the input  *)
(* is reached before the closing quote; no STRING token is emitted for     *)
(* such a literal.                                                         *)
(***************************************************************************)
\* The index of the quote that closes a literal whose characters start at
\* index i (a backslash takes the character after it along), 0 if none does.
RECURSIVE ClosingQuote(_, _)
ClosingQuote(source, i) ==
    IF i > Len(source) THEN 0
    ELSE IF source[i] = "\\" THEN ClosingQuote(source, i + 2)
    ELSE IF source[i] = "\"" THEN i
    ELSE ClosingQuote(source, i + 1)

\* The literal whose opening quote follows the first k characters is not
\* closed, or holds a raw newline.
Unterminated(source, k) ==
    \/ ClosingQuote(source, k + 2) = 0
    \/ \E j \in (k + 2)..(ClosingQuote(source, k + 2) - 1) : source[j] = "\n"

UnterminatedStringRaises ==
    [][(ReadString /\ Unterminated(source_code, ret.lx.pos)) =>
          (ret'.raised /\ ret'.tokens = ret.tokens)]_vars

(***************************************************************************)
(* C26: the counters of temporaries and labels are local to one run of     *)
(* generate: in every run the i-th temporary allocated is named t(i-1) and *)
(* the j-th label L(j-1), without gaps or repeats, also when generate is   *)
(* run a second time on the same CodeGenerator.                            *)
(***************************************************************************)
\* The instructions that the last run emitted.
RunCode ==
    SubSeq(ret.g.instructions, Len(ret.before.instructions) + 1, Len(ret.g.instructions))

\* The instructions of code whose result is a temporary fresh from new_temp.
TempWriters(code) ==
    {i \in DOMAIN code :
        code[i].operation \notin {"=", "label", "goto", "if_false", "param", "return",
                                  "print", "begin_func", "end_func"}}

CountersLocalToRun ==
    (ret.op = "CodeGenerator" /\ ret.runs >= 1) =>
        /\ \A i \in TempWriters(RunCode) :
               RunCode[i].result =
                   "t" \o ToString(Cardinality({j \in TempWriters(RunCode) : j < i}))
        /\ LabelNames(RunCode) =
               {"L" \o ToString(k) : k \in 0..(Cardinality(LabelNames(RunCode)) - 1)}

(***************************************************************************)
(* C28: a Symbol that is not a function (a variable or a parameter) keeps  *)
(* the data type it was declared with for the rest of the analysis: a      *)
(* Return statement changes the recorded type of function symbols only,    *)
(* also when a parameter, a local variable or a nested function of the     *)
(* body has the name of the enclosing function.                            *)
(***************************************************************************)
NonFunctionTypeKept ==
    [][\A i \in DOMAIN scopes \cap DOMAIN scopes' :
          \A n \in DOMAIN scopes[i] \cap DOMAIN scopes'[i] :
              ~scopes[i][n].is_function => scopes'[i][n].data_type = scopes[i][n].data_type]_vars

(***************************************************************************)
(* C30: in every state reachable during the semantic analysis,             *)
(* current_scope is the number of frames minus one, and every Symbol that  *)
(* frame i holds has scope_level = i.                                      *)
(***************************************************************************)
ScopeLevelIsFrameIndex ==
    /\ current_scope = Len(scopes) - 1
    /\ \A i \in DOMAIN scopes : \A n \in DOMAIN scopes[i] :
           /\ scopes[i][n].scope_level = i - 1
           /\ scopes[i][n].name = n

\* Inside the body of a function inside a block: the function's Symbol in
\* frame 1, a parameter in frame 2, and a variable of the program in frame 0.
ScopeLevelIsFrameIndexWitness ==
    /\ Len(scopes) = 3
    /\ \E n \in DOMAIN scopes[1] : ~scopes[1][n].is_function
    /\ \E n \in DOMAIN scopes[2] : scopes[2][n].is_function
    /\ \E n \in DOMAIN scopes[3] : ~scopes[3][n].is_function

(***************************************************************************)
(* C29: in the generated TAC every "call name, n" instruction comes right  *)
(* after exactly n param instructions, which carry that call's arguments   *)
(* in source order with no instruction of another call in between, also    *)
(* when an argument is itself a call, as in f(1, g(2)).                    *)
(***************************************************************************)
\* The number of arguments a call instruction names.
ArgumentCount(instruction) ==
    CHOOSE n \in 0..3 : ToString(n) = instruction.arg2

ParamsBeforeCall ==
    (ret.op = "init" /\ tac # Unset) =>
        \A i \in Instructions(tac[1], {"call"}) :
            /\ i > ArgumentCount(tac[1][i])
            /\ \A j \in (i - ArgumentCount(tac[1][i]))..(i - 1) :
                   tac[1][j].operation = "param"

====
